---- MODULE Spec2Model ----
(***************************************************************************)
(* Background indexing of 1C help archives (.hbk) into Elasticsearch.      *)
(*                                                                         *)
(* The model covers BackgroundIndexingManager (admission control, the job  *)
(* task, progress, graceful shutdown), the part of HBKParser.parse_file    *)
(* that decides what the job sees, and ElasticsearchIndexer.reindex_all /  *)
(* index_documentation driving the destination index.                      *)
(*                                                                         *)
(* Scheduling is asyncio: one event loop, tasks run without interruption   *)
(* from one await to the next.  Every action below is one such run: the    *)
(* code between two suspension points of one coroutine.  `async with       *)
(* self._lock` never suspends here (nothing awaits while holding the lock),*)
(* so it is not a step boundary.                                           *)
(***************************************************************************)
EXTENDS Integers, Sequences, FiniteSets, TLC

(* ---------------------------- bounds ----------------------------------- *)

\* number of job tasks a behaviour may create
MaxTasks == 2
\* largest number of documentation records in one archive
MaxDocs == 3
\* largest shutdown timeout, in clock ticks (the source default is 30 s)
MaxTimeout == 1
\* ElasticsearchIndexer.batch_size, scaled down (100 in the source) so that
\* MaxDocs documents span more than one batch
batch_size == 2
\* largest number of HTML entries in an archive given to the streaming pipeline
MaxEntries == 5
\* largest StreamingIndexer.batch_size (500 by default in the source)
MaxChunk == 2
\* largest settings.elasticsearch.max_retries (3 by default in the source)
MaxRetries == 3
\* largest number of leading calls on which a wrapped function fails
MaxFails == 3
\* members of the ZIP payload of a container
MaxMembers == 2
\* distinct document ids
MaxIds == 3
\* bulk writes sent to one destination index
MaxWrites == 3
\* entries of one chunk handed to _parse_files_parallel
MaxBatch == 3
\* entries of the archive handed to _analyze_structure
MaxListed == 3
\* BATCH_SIZE of src/core/constants.py (100), scaled down
BATCH_SIZE == 2

(* ---------------------------- values ----------------------------------- *)

NoTask == 0
Tasks == 1..MaxTasks

\* IndexingStatus
IDLE == "IDLE"
IN_PROGRESS == "IN_PROGRESS"
COMPLETED == "COMPLETED"
FAILED == "FAILED"

\* Optional[...] = None
None == -1

\* error_message values written by _do_indexing
MsgCancelled == "Indexing cancelled"
MsgFileNotFound == "Indexing error: file not found"
MsgParseFailed == "Indexing error: could not parse file"
MsgReindexFalse == "Indexing error: indexing returned False"

\* exception classes that occur in the job body
CancelledError == "CancelledError"
FileNotFoundError == "FileNotFoundError"
ValueError == "ValueError"
RuntimeError == "RuntimeError"

ErrorMsg(exc) ==
    CASE exc = FileNotFoundError -> MsgFileNotFound
      [] exc = ValueError -> MsgParseFailed
      [] exc = RuntimeError -> MsgReindexFalse

\* The archive files a caller may pass to start_indexing, by what
\* Path.exists, validate_file_path and the size check ("invalid": wrong
\* extension or too large) and the ZIP decoder ("no_signature": no ZIP
\* signature in the file, "bad_zip": no strategy opens the payload) make
\* of them; docs is the number of documentation records of a good archive.
FileKinds == {"missing", "invalid", "no_signature", "bad_zip", "ok"}
HbkFile(kind, docs) == [kind |-> kind, docs |-> docs]
Files ==
    {HbkFile(k, 0) : k \in FileKinds} \cup {HbkFile("ok", n) : n \in 1..MaxDocs}
NoFile == HbkFile("none", 0)

Min(a, b) == IF a < b THEN a ELSE b

(* ---------------------------- state ------------------------------------ *)

VARIABLES
    shutdown_timeout,   \* BackgroundIndexingManager._shutdown_timeout
    current_task,       \* BackgroundIndexingManager._current_task
    progress_info,      \* BackgroundIndexingManager._progress_info
    should_stop,        \* BackgroundIndexingManager._should_stop
    task_pc,            \* per task: the await the job coroutine is suspended at
    task_args,          \* per task: file_path, es_client, clear_index
    must_cancel,        \* per task: Task.cancel() was called, not yet delivered
    task_result,        \* per task: how the task finished
    loop_i,             \* per task: i of index_documentation's batch loop
    indexed_count,      \* per task: indexed_count of index_documentation
    es_exists,          \* destination: the index exists
    sink_log,           \* destination calls issued by the run that began last
    bulk_log,           \* bulk writes of that run: the batch handed over, and the outcome
    sd_pc,              \* graceful_shutdown: where the call is suspended
    sd_arg,             \* graceful_shutdown: the timeout argument of the call
    sd_timeout,         \* graceful_shutdown: local timeout after defaulting
    sd_waited,          \* clock ticks spent in asyncio.wait_for
    sd_fut,             \* the task graceful_shutdown awaits
    sd_cancelled,       \* the call has cancelled a task
    returned,           \* the public call that returned in the last step, and its result
    unlocked,           \* status record accesses of the last step made without the lock
    st_pc,              \* stream_index_archive: where the coroutine is suspended
    st_batch_size,      \* StreamingIndexer.batch_size
    st_max_documents,   \* StreamingIndexer.max_documents
    html_entries,       \* stream_index_archive: len(html_entries)
    chunk_start,        \* _chunk_list: i of the chunk being processed
    batch_num,          \* stream_index_archive: batch_num
    batch_docs,         \* stream_index_archive: len(batch_docs) of the chunk
    total_indexed,      \* stream_index_archive: total_indexed
    st_written,         \* destination: per chunk, its documents held by the index
    st_log,             \* stages run by the pipeline, with the chunk they ran on
    st_result,          \* what stream_index_archive returned
    st_held,            \* what the pipeline holds: the client of es_client, the
                        \* parser's _archive_data and _zip_file
    rt_pc,              \* retry wrapper: where the call is
    rt_policy,          \* the decorator that built the wrapper
    rt_max_retries,     \* settings.elasticsearch.max_retries
    rt_func,            \* the wrapped function: what its successive calls do
    rt_args,            \* the arguments the wrapper was called with
    attempt_number,     \* tenacity: retry_state.attempt_number
    rt_calls,           \* the calls made to the wrapped function, with their arguments
    rt_sleeps,          \* number of waits between attempts
    rt_result,          \* how the wrapper call ended
    hp_file,            \* the container file an HBKParser is used on
    zip_file,           \* HBKParser._zip_file
    open_log,           \* the attempts to open a ZIP made by the last _try_open_zip
    hp_result,          \* the last call made on the parser, and how it ended
    dest_keys,          \* destination index: the _id of every document held
    dest_seq,           \* destination index: number of bulk writes received
    last_write,         \* the last bulk write: its batch, its outcome, the count before
                        \* it, the batches written with success since the index was empty
    pp_pc,              \* _parse_files_parallel: where the coroutine is
    batch_entries,      \* _parse_files_parallel: the entries of the chunk
    pp_futures,         \* per entry of valid_entries: the result of its future
    pp_parsed,          \* the entries _parse_single_file was run on
    pp_return,          \* what _parse_files_parallel returned
    su_pc,              \* _delayed_background_indexing: where the coroutine is
    hbk_files,          \* _delayed_background_indexing: the files found at startup
    su_i,               \* _delayed_background_indexing: i of the loop over hbk_files
    su_started,         \* the start_indexing calls the loop made, and what they did
    an_pc,              \* _analyze_structure: where the method is
    max_files_per_type, \* HBKParser.max_files_per_type
    max_total_files,    \* HBKParser.max_total_files
    an_entries,         \* _analyze_structure: entries, by what each entry is
    an_html,            \* _analyze_structure: html_entries, as positions in entries
    an_i,               \* _analyze_structure: i of the loop over the batches
    processed_html,     \* _analyze_structure: processed_html
    an_stats            \* ParsedHBK.stats

manager_vars == <<shutdown_timeout, current_task, progress_info, should_stop>>
task_vars == <<task_pc, task_args, must_cancel, task_result, loop_i, indexed_count>>
es_vars == <<es_exists, sink_log, bulk_log>>
sd_vars == <<sd_pc, sd_arg, sd_timeout, sd_waited, sd_fut, sd_cancelled>>
stream_vars == <<st_pc, st_batch_size, st_max_documents, html_entries, chunk_start,
                 batch_num, batch_docs, total_indexed, st_written, st_log, st_result,
                 st_held>>
retry_vars == <<rt_pc, rt_policy, rt_max_retries, rt_func, rt_args, attempt_number,
                rt_calls, rt_sleeps, rt_result>>
parser_vars == <<hp_file, zip_file, open_log, hp_result>>
dest_vars == <<dest_keys, dest_seq, last_write>>
parse_vars == <<pp_pc, batch_entries, pp_futures, pp_parsed, pp_return>>
startup_vars == <<su_pc, hbk_files, su_i, su_started>>
analyze_vars == <<an_pc, max_files_per_type, max_total_files, an_entries, an_html, an_i,
                  processed_html, an_stats>>
aux_vars == <<parse_vars, startup_vars, analyze_vars>>
vars == <<manager_vars, task_vars, es_vars, sd_vars, returned, unlocked, stream_vars, retry_vars,
          parser_vars, dest_vars, aux_vars>>

\* IndexProgressInfo(status=..., file_path=..., start_time=...): the other
\* fields take their defaults
IndexProgressInfo(status, file_path, start_time) ==
    [status |-> status,
     total_documents |-> 0,
     indexed_documents |-> 0,
     start_time |-> start_time,
     end_time |-> None,
     error_message |-> "",
     file_path |-> file_path]

\* values of `returned`: no public call returned in the last step, or
\* start_indexing did (having created a task or dropped the request), or
\* get_status did with a copy of the status record, or graceful_shutdown
\* did (value "True" or "False", or "raised" for an exception) on a call
\* with the given timeout argument, made while a job was or was not
\* running, that had or had not cancelled a task
NoReturn == [op |-> "none"]
StartReturned(outcome) == [op |-> "start_indexing", value |-> outcome]
\* get_status, lines 247-257: a new IndexProgressInfo is built from the
\* fields of the status record (copy), not the record itself handed out
StatusReturnedShared(info) == [op |-> "get_status", value |-> info, copy |-> FALSE]
StatusReturned(info) == [op |-> "get_status", value |-> info, copy |-> TRUE]
ShutdownReturned(timeout, running, value, cancelled) ==
    [op |-> "graceful_shutdown", timeout |-> timeout, running |-> running,
     value |-> value, cancelled |-> cancelled]

NoArgs == [file_path |-> NoFile, clear_index |-> FALSE]

\* asyncio.Task.done()
Done(t) == task_pc[t] = "done"

\* a task that was created and has not finished
InFlight(t) == task_pc[t] \notin {"none", "done"}

\* BackgroundIndexingManager.is_indexing
is_indexing_by_status == progress_info.status = IN_PROGRESS
is_indexing == current_task # NoTask /\ ~Done(current_task)

\* the streaming pipeline has not been constructed
StreamIdle ==
    /\ st_pc = "none"
    /\ st_batch_size = None
    /\ st_max_documents = None
    /\ html_entries = None
    /\ chunk_start = 0
    /\ batch_num = 0
    /\ batch_docs = 0
    /\ total_indexed = 0
    /\ st_written = <<>>
    /\ st_log = <<>>
    /\ st_result = None
    /\ st_held = {}

\* no function has been wrapped by a retry decorator
RetryIdle ==
    /\ rt_pc = "none"
    /\ rt_policy = None
    /\ rt_max_retries = None
    /\ rt_func = None
    /\ rt_args = None
    /\ attempt_number = 0
    /\ rt_calls = <<>>
    /\ rt_sleeps = 0
    /\ rt_result = None

\* a container: the vendor header, the ZIP payload with the number of
\* members its central directory declares, the length of the comment of
\* its end-of-central-directory record, the member whose data cannot be
\* read (0: none), and the vendor trailer
Container(header, payload, entries, comment, damaged, trailer) ==
    [header |-> header, payload |-> payload, entries |-> entries, comment |-> comment,
     damaged |-> damaged, trailer |-> trailer]
NoContainer == Container("none", "none", 0, 0, 0, "none")

\* zipfile.BadZipFile: no ZipFile object
BadZipFile == [ok |-> FALSE, entries |-> 0, damaged |-> 0]

\* no call has been made on the parser
NoCall == [op |-> "none", outcome |-> "none", open |-> FALSE, entries |-> None,
           request |-> {}, files |-> <<>>]

\* no HBKParser has been constructed
ParserIdle ==
    /\ hp_file = NoContainer
    /\ zip_file = BadZipFile
    /\ open_log = <<>>
    /\ hp_result = NoCall

\* no bulk write has been sent
NoWrite == [batch |-> {}, outcome |-> "none", before |-> 0, earlier |-> {}]

\* no destination index is under observation
DestIdle ==
    /\ dest_keys = {}
    /\ dest_seq = 0
    /\ last_write = NoWrite

\* no result of _parse_files_parallel
NoParse == [batch_docs |-> <<>>, parsed_count |-> None]

\* no chunk has been handed to the parallel parse stage
ParseIdle ==
    /\ pp_pc = "none"
    /\ batch_entries = <<>>
    /\ pp_futures = <<>>
    /\ pp_parsed = {}
    /\ pp_return = NoParse

\* no startup indexing has been scheduled
StartupIdle ==
    /\ su_pc = "none"
    /\ hbk_files = <<>>
    /\ su_i = 0
    /\ su_started = <<>>

\* ParsedHBK.stats not yet set
NoStats == [html_files |-> 0, processed_html |-> 0, st_files |-> 0, category_files |-> 0,
            total_entries |-> 0]

\* no parser is analysing an archive
AnalyzeIdle ==
    /\ an_pc = "none"
    /\ max_files_per_type = None
    /\ max_total_files = None
    /\ an_entries = <<>>
    /\ an_html = <<>>
    /\ an_i = 0
    /\ processed_html = 0
    /\ an_stats = NoStats

\* the machines beside the manager, the pipeline, the retry wrapper, the
\* decoder and the destination are not in use
AuxIdle == ParseIdle /\ StartupIdle /\ AnalyzeIdle

\* BackgroundIndexingManager.__init__, and the destination it will work on
ManagerInit ==
    /\ shutdown_timeout \in 0..MaxTimeout
    /\ current_task = NoTask
    /\ progress_info = IndexProgressInfo(IDLE, NoFile, None)
    /\ should_stop = FALSE
    /\ task_pc = [t \in Tasks |-> "none"]
    /\ task_args = [t \in Tasks |-> NoArgs]
    /\ must_cancel = [t \in Tasks |-> FALSE]
    /\ task_result = [t \in Tasks |-> "none"]
    /\ loop_i = [t \in Tasks |-> 0]
    /\ indexed_count = [t \in Tasks |-> 0]
    /\ es_exists \in BOOLEAN
    /\ sink_log = <<>>
    /\ bulk_log = <<>>
    /\ sd_pc = "idle"
    /\ sd_arg = None
    /\ sd_timeout = None
    /\ sd_waited = 0
    /\ sd_fut = NoTask
    /\ sd_cancelled = FALSE
    /\ returned = NoReturn
    /\ unlocked = {}

Init == ManagerInit /\ StreamIdle /\ RetryIdle /\ ParserIdle /\ DestIdle /\ AuxIdle

(* ---------------------------- start_indexing --------------------------- *)

\* asyncio.create_task hands out a new task; task ids grow with creation
NewTask == CHOOSE t \in Tasks : task_pc[t] = "none" /\ \A u \in Tasks : u < t => task_pc[u] # "none"

start_indexing(file_path, clear_index) ==
    /\ is_indexing \/ \E t \in Tasks : task_pc[t] = "none"
    /\ IF is_indexing
       THEN /\ returned' = StartReturned("dropped")
            /\ UNCHANGED <<current_task, task_pc, task_args>>
       ELSE /\ returned' = StartReturned("created")
            /\ current_task' = NewTask
            /\ task_pc' = [task_pc EXCEPT ![NewTask] = "created"]
            /\ task_args' = [task_args EXCEPT ![NewTask] =
                    [file_path |-> file_path, clear_index |-> clear_index]]
    /\ UNCHANGED <<shutdown_timeout, progress_info, should_stop, must_cancel, task_result,
                   loop_i, indexed_count, es_vars, sd_vars>>

(* ---------------------------- HBKParser.parse_file --------------------- *)

\* Path(file_path).exists()
PathExists(f) == f.kind # "missing"

\* What parse_file returns: None when validation or the size check fails;
\* otherwise a ParsedHBK.  When the archive cannot be decoded
\* (_open_hbk_as_zip raises: no ZIP signature, or no strategy opens the
\* payload) _extract_archive swallows the error and returns [], and
\* parse_file returns the ParsedHBK with an entry in errors and an empty
\* documentation list.
ParsedHBK(documentation, errors) == [documentation |-> documentation, errors |-> errors]
NoParsedHBK == [documentation |-> None, errors |-> None]

parse_file(f) ==
    CASE f.kind = "invalid" -> NoParsedHBK
      [] f.kind \in {"no_signature", "bad_zip"} -> ParsedHBK(0, 1)
      [] OTHER -> ParsedHBK(f.docs, 0)

(* ---------------------------- _do_indexing ----------------------------- *)

\* datetime.now() during the run of task t: runs are ordered in time as
\* their tasks are
Now(t) == t

\* `except Exception` catches every exception of the job body except
\* asyncio.CancelledError (a BaseException)
ExceptExceptionNarrow(exc) == exc \notin {CancelledError, FileNotFoundError}
ExceptException(exc) == exc # CancelledError

\* `not parsed_hbk.documentation`
NoDocumentationNever(parsed_hbk) == FALSE
NoDocumentation(parsed_hbk) == parsed_hbk.documentation = 0

\* lines 87-92: a new IndexProgressInfo is assigned to _progress_info,
\* the fields not named taking their defaults
StartedInfoUpdated(info, file_path, now) ==
    [info EXCEPT !.status = IN_PROGRESS, !.file_path = file_path, !.start_time = now]
StartedInfo(info, file_path, now) == IndexProgressInfo(IN_PROGRESS, file_path, now)

\* lines 118-122: the archive holds no documentation
CompletedEmptyUnmarked(info, now) ==
    [info EXCEPT !.end_time = now, !.total_documents = 0, !.indexed_documents = 0]
CompletedEmpty(info, now) ==
    [info EXCEPT !.status = COMPLETED, !.end_time = now,
                 !.total_documents = 0, !.indexed_documents = 0]

\* lines 146-149: success
CompletedNoEndTime(info, total, now) ==
    [info EXCEPT !.status = COMPLETED, !.indexed_documents = total]
Completed(info, total, now) ==
    [info EXCEPT !.status = COMPLETED, !.end_time = now, !.indexed_documents = total]

\* lines 159-162: except asyncio.CancelledError
CancelledInfoUntouched(info, now) == info
CancelledInfo(info, now) ==
    [info EXCEPT !.status = FAILED, !.error_message = MsgCancelled, !.end_time = now]

\* lines 170-173: except Exception
FailedToIdle(info, exc, now) ==
    [info EXCEPT !.status = IDLE, !.error_message = ErrorMsg(exc), !.end_time = now]
FailedInfo(info, exc, now) ==
    [info EXCEPT !.status = FAILED, !.error_message = ErrorMsg(exc), !.end_time = now]

\* _update_progress(indexed, total)
UpdateProgressRemaining(info, indexed, total) ==
    [info EXCEPT !.indexed_documents = total - indexed, !.total_documents = total]
UpdateProgress(info, indexed, total) ==
    [info EXCEPT !.indexed_documents = indexed, !.total_documents = total]

\* An access of the status record at the named place of the code, made
\* inside `async with self._lock` or not: what it adds to the accesses
\* made without the lock.
Access(site, locked) == IF locked THEN {} ELSE {site}

\* _update_progress, lines 189-190: the two counters are assigned by the
\* synchronous callback, which takes no lock
UpdateProgressAccess == Access("_update_progress", FALSE)

\* _do_indexing line 151: duration_seconds is read for the log after the
\* `async with self._lock` block of lines 146-149 is left
DurationAccess == Access("_do_indexing", FALSE)

\* graceful_shutdown lines 227-228: indexed_documents and total_documents
\* are read for the warning of the TimeoutError branch, outside any lock
ShutdownCountersAccess == Access("graceful_shutdown", FALSE)

\* The task finishes: `finally: self._current_task = None`, and the
\* coroutine's locals are gone.
Finish(t, result) ==
    /\ current_task' = NoTask
    /\ task_pc' = [task_pc EXCEPT ![t] = "done"]
    /\ task_result' = [task_result EXCEPT ![t] = result]
    /\ must_cancel' = [must_cancel EXCEPT ![t] = FALSE]
    /\ loop_i' = [loop_i EXCEPT ![t] = 0]
    /\ indexed_count' = [indexed_count EXCEPT ![t] = 0]
    /\ task_args' = [task_args EXCEPT ![t] = NoArgs]

\* The job body raises exc with the status record being info: the except
\* clauses of _do_indexing, then finally.
Raise(t, info, exc) ==
    IF exc = CancelledError
    THEN /\ progress_info' = CancelledInfo(info, Now(t))
         /\ Finish(t, "cancelled")
    ELSE IF ExceptException(exc)
    THEN /\ progress_info' = FailedInfo(info, exc, Now(t))
         /\ Finish(t, "returned")
    ELSE /\ progress_info' = info
         /\ Finish(t, "raised")

\* The job body goes on to its next await at pc.
Goto(t, pc, i, count) ==
    /\ task_pc' = [task_pc EXCEPT ![t] = pc]
    /\ loop_i' = [loop_i EXCEPT ![t] = i]
    /\ indexed_count' = [indexed_count EXCEPT ![t] = count]
    /\ UNCHANGED <<current_task, task_result, must_cancel, task_args>>

\* A task is inside its first step, between two statements with no await
\* in between: the event loop runs nothing else until the step is over.
MidStep == \E t \in Tasks : task_pc[t] = "check_file"

\* The task is resumed at the await it is suspended at, no cancellation pending
ResumedThoughCancelled(t, pc) == task_pc[t] = pc /\ ~MidStep
Resumed(t, pc) == task_pc[t] = pc /\ ~must_cancel[t] /\ ~MidStep

\* The task's first step starts, lines 85-94: the status record is replaced.
\* A task cancelled before its first step never runs its coroutine: the
\* CancelledError is thrown into the unstarted coroutine, so neither the
\* try block nor its except/finally clauses execute.
Begin(t) ==
    /\ task_pc[t] = "created"
    /\ ~MidStep
    /\ IF must_cancel[t]
       THEN /\ task_pc' = [task_pc EXCEPT ![t] = "done"]
            /\ task_result' = [task_result EXCEPT ![t] = "cancelled"]
            /\ must_cancel' = [must_cancel EXCEPT ![t] = FALSE]
            /\ task_args' = [task_args EXCEPT ![t] = NoArgs]
            /\ UNCHANGED <<current_task, progress_info, loop_i, indexed_count, sink_log, bulk_log>>
       ELSE /\ progress_info' = StartedInfo(progress_info, task_args[t].file_path, Now(t))
            /\ sink_log' = <<>>
            /\ bulk_log' = <<>>
            /\ Goto(t, "check_file", 0, 0)
    /\ UNCHANGED <<shutdown_timeout, should_stop,
                   es_exists, sd_vars>>

\* The first step goes on, lines 96-110, up to `await run_in_executor`.
\* There is no await between Begin and here: nothing else runs in between
\* (see MidStep).
CheckFile(t) ==
    /\ task_pc[t] = "check_file"
    /\ IF ~PathExists(task_args[t].file_path)
       THEN Raise(t, progress_info, FileNotFoundError)
       ELSE /\ UNCHANGED progress_info
            /\ Goto(t, "parse", 0, 0)
    /\ UNCHANGED <<shutdown_timeout, should_stop, es_vars, sd_vars>>

\* Task.cancel() delivered at the await the task is suspended at
Cancel(t) ==
    /\ task_pc[t] \notin {"none", "created", "check_file", "done"}
    /\ must_cancel[t]
    /\ ~MidStep
    /\ Raise(t, progress_info, CancelledError)
    /\ UNCHANGED <<shutdown_timeout, should_stop,
                   es_vars, sd_vars>>

(* ---------------------------- the indexer ------------------------------ *)

\* len(parsed_hbk.documentation) of the archive task t works on
TotalDocs(t) == parse_file(task_args[t].file_path).documentation

\* len(batch) for batch = parsed_hbk.documentation[i:i + batch_size]
BatchLenFull(i, total) == batch_size
BatchLen(i, total) == Min(i + batch_size, total) - i

\* `range(0, total_docs, batch_size)`: the start of the batch after the one at i
NextBatchStartByOne(i) == i + 1
NextBatchStart(i) == i + batch_size

\* What the bulk call of _index_batch can do: the response has no errors
\* ("ok"), the response reports errors ("errors"), or the call raises a
\* connection or transient error of the destination ("ConnectionError").
\* _index_batch returns True in the first case only (lines 106-112).
BulkOutcomes == {"ok", "errors", "ConnectionError"}
IndexBatch(outcome) == outcome = "ok"

\* an entry of bulk_log: documentation[start : start + len] was handed to
\* the destination, with the given result ("pending" until the call is over)
BulkWrite(start, len, result) == [start |-> start, len |-> len, result |-> result]

\* a destination call is issued and the task suspends on it
Call(t, op, pc, i, count) ==
    /\ sink_log' = Append(sink_log, op)
    /\ Goto(t, pc, i, count)

\* a destination call other than a bulk write
Issue(t, op, pc, i, count) ==
    /\ Call(t, op, pc, i, count)
    /\ UNCHANGED bulk_log

\* index_documentation, line 38: `await self.es_client.is_connected()`
EnterIndexDocumentation(t, info) ==
    progress_info' = info /\ Issue(t, "ping", "is_connected", 0, 0)

\* reindex_all line 162: `if clear_index:`
ClearAlways(t) == TRUE
ClearRequested(t) == task_args[t].clear_index

\* reindex_all, lines 161-172, up to its first await
EnterReindexAll(t, info) ==
    IF ClearRequested(t)
    THEN progress_info' = info /\ Issue(t, "exists", "clear_exists", 0, 0)
    ELSE EnterIndexDocumentation(t, info)

\* index_documentation, line 52: the loop head `for i in range(0, total_docs, batch_size)`
LoopHead(t, i, count, log) ==
    IF i < TotalDocs(t)
    THEN /\ Call(t, "bulk", "bulk", i, count)
         /\ bulk_log' = Append(log, BulkWrite(i, BatchLen(i, TotalDocs(t)), "pending"))
    ELSE /\ Call(t, "refresh", "refresh", i, count)
         /\ bulk_log' = log

\* _do_indexing lines 106-140: parse_file has returned
ParseDone(t) ==
    /\ Resumed(t, "parse")
    /\ LET parsed_hbk == parse_file(task_args[t].file_path) IN
       IF parsed_hbk = NoParsedHBK
       THEN Raise(t, progress_info, ValueError) /\ UNCHANGED <<sink_log, bulk_log>>
       ELSE IF NoDocumentation(parsed_hbk)
       THEN /\ progress_info' = CompletedEmpty(progress_info, Now(t))
            /\ Finish(t, "returned")
            /\ UNCHANGED <<sink_log, bulk_log>>
       ELSE EnterReindexAll(t, [progress_info EXCEPT !.total_documents = parsed_hbk.documentation])
    /\ UNCHANGED <<shutdown_timeout, should_stop,
                   es_exists, sd_vars>>

\* reindex_all line 164: index_exists returns or raises
ClearIndexExists(t) ==
    /\ Resumed(t, "clear_exists")
    /\ \E raises \in BOOLEAN :
        IF raises
        THEN Raise(t, progress_info, RuntimeError) /\ UNCHANGED <<sink_log, bulk_log>>
        ELSE /\ UNCHANGED progress_info
             /\ IF es_exists
                THEN Issue(t, "delete", "clear_delete", 0, 0)
                ELSE Issue(t, "create", "clear_create", 0, 0)
    /\ UNCHANGED <<shutdown_timeout, should_stop,
                   es_exists, sd_vars>>

\* reindex_all line 166: indices.delete returns or raises
ClearDelete(t) ==
    /\ Resumed(t, "clear_delete")
    /\ \E raises \in BOOLEAN :
        IF raises
        THEN /\ Raise(t, progress_info, RuntimeError)
             /\ UNCHANGED <<sink_log, bulk_log, es_exists>>
        ELSE /\ es_exists' = FALSE
             /\ UNCHANGED progress_info
             /\ Issue(t, "create", "clear_create", 0, 0)
    /\ UNCHANGED <<shutdown_timeout, should_stop, sd_vars>>

\* reindex_all lines 169-172: create_index returns True or False (ignored),
\* then index_documentation is entered
ClearCreate(t) ==
    /\ Resumed(t, "clear_create")
    /\ \E created \in BOOLEAN : es_exists' = (es_exists \/ created)
    /\ EnterIndexDocumentation(t, progress_info)
    /\ UNCHANGED <<shutdown_timeout, should_stop, sd_vars>>

\* index_documentation lines 38-44: is_connected returns
IsConnected(t) ==
    /\ Resumed(t, "is_connected")
    /\ \E connected \in BOOLEAN :
        IF ~connected
        THEN Raise(t, progress_info, RuntimeError) /\ UNCHANGED <<sink_log, bulk_log>>
        ELSE UNCHANGED progress_info /\ Issue(t, "exists", "exists", 0, 0)
    /\ UNCHANGED <<shutdown_timeout, should_stop,
                   es_exists, sd_vars>>

\* index_documentation lines 44-52: index_exists returns or raises
IndexExists(t) ==
    /\ Resumed(t, "exists")
    /\ \E raises \in BOOLEAN :
        IF raises
        THEN Raise(t, progress_info, RuntimeError) /\ UNCHANGED <<sink_log, bulk_log>>
        ELSE /\ UNCHANGED progress_info
             /\ IF ~es_exists
                THEN Issue(t, "create", "create", 0, 0)
                ELSE LoopHead(t, 0, 0, bulk_log)
    /\ UNCHANGED <<shutdown_timeout, should_stop,
                   es_exists, sd_vars>>

\* index_documentation lines 46-52: create_index returns True or False (ignored)
CreateIndex(t) ==
    /\ Resumed(t, "create")
    /\ \E created \in BOOLEAN : es_exists' = (es_exists \/ created)
    /\ UNCHANGED progress_info
    /\ LoopHead(t, 0, 0, bulk_log)
    /\ UNCHANGED <<shutdown_timeout, should_stop, sd_vars>>

\* index_documentation lines 56-58: `if success: indexed_count += len(batch)`
CountedAnyway(indexed, len, success) == indexed + len
Counted(indexed, len, success) == IF success THEN indexed + len ELSE indexed

\* index_documentation lines 55-63 with _index_batch: the bulk call returns.
\* With errors in the response, or an exception, _index_batch returns
\* False, and the loop goes on with the next batch either way.  A
\* successful bulk write creates a missing index.
Bulk(t) ==
    /\ Resumed(t, "bulk")
    /\ LET i == loop_i[t]
           total_docs == TotalDocs(t)
       IN \E outcome \in BulkOutcomes :
            /\ es_exists' = (es_exists \/ IndexBatch(outcome))
            /\ LET success == IndexBatch(outcome)
                   count == Counted(indexed_count[t], BatchLen(i, total_docs), success)
               IN /\ progress_info' = IF success
                                      THEN UpdateProgress(progress_info, count, total_docs)
                                      ELSE progress_info
                  /\ unlocked' = IF success THEN UpdateProgressAccess ELSE {}
                  /\ LoopHead(t, NextBatchStart(i), count,
                              [bulk_log EXCEPT ![Len(bulk_log)].result = outcome])
    /\ UNCHANGED <<shutdown_timeout, should_stop, sd_vars>>

\* index_documentation lines 66-68 and _do_indexing lines 142-154:
\* refresh_index returns (its result is ignored)
Refresh(t) ==
    /\ Resumed(t, "refresh")
    /\ IF indexed_count[t] = TotalDocs(t)
       THEN /\ progress_info' = Completed(progress_info, TotalDocs(t), Now(t))
            /\ unlocked' = DurationAccess
            /\ Finish(t, "returned")
       ELSE Raise(t, progress_info, RuntimeError) /\ unlocked' = {}
    /\ UNCHANGED <<shutdown_timeout, should_stop,
                   es_vars, sd_vars>>

(* ---------------------------- graceful_shutdown ------------------------ *)

\* line 212: `timeout = timeout or self._shutdown_timeout`; None and 0 are
\* both falsy
EffectiveTimeout(timeout) == IF timeout \in {None, 0} THEN shutdown_timeout ELSE timeout

\* graceful_shutdown returns value; its locals are gone
Return(timeout, running, value, cancelled) ==
    /\ returned' = ShutdownReturned(timeout, running, value, cancelled)
    /\ sd_pc' = "idle"
    /\ sd_arg' = None
    /\ sd_timeout' = None
    /\ sd_waited' = 0
    /\ sd_fut' = NoTask
    /\ sd_cancelled' = FALSE

\* line 210: no job is running
NotRunningValue == "True"

\* line 220: wait_for returned
WaitedValue == "True"

\* line 238: after TimeoutError
TimeoutValueTrue == "True"
TimeoutValue == "False"

\* What `await asyncio.wait_for(self._current_task, ...)` makes of the
\* finished task t: line 220 is reached if the task returned; a cancelled
\* task gives onCancelled (TimeoutError after wait_for's own cancel,
\* CancelledError otherwise); an exception of the task is re-raised.
AwaitResult(t, onCancelled) ==
    CASE task_result[t] = "returned" -> WaitedValue
      [] task_result[t] = "cancelled" -> onCancelled
      [] OTHER -> "raised"

\* lines 233-238: `await self._current_task` inside try/except
\* CancelledError, then `return False`
AwaitCurrent(t) == IF task_result[t] = "raised" THEN "raised" ELSE TimeoutValue

\* The call, lines 208-218, up to the suspension inside asyncio.wait_for.
\* wait_for with a timeout <= 0 cancels a task that is not done at once.
graceful_shutdown(timeout) ==
    /\ sd_pc = "idle"
    /\ IF ~is_indexing
       THEN /\ Return(timeout, FALSE, NotRunningValue, FALSE)
            /\ UNCHANGED <<should_stop, must_cancel>>
       ELSE /\ returned' = NoReturn
            /\ should_stop' = TRUE
            /\ sd_arg' = timeout
            /\ sd_timeout' = EffectiveTimeout(timeout)
            /\ sd_fut' = current_task
            /\ sd_waited' = 0
            /\ IF EffectiveTimeout(timeout) <= 0
               THEN /\ must_cancel' = [must_cancel EXCEPT ![current_task] = TRUE]
                    /\ sd_cancelled' = TRUE
                    /\ sd_pc' = "cancel_wait"
               ELSE /\ sd_cancelled' = FALSE
                    /\ sd_pc' = "waiting"
                    /\ UNCHANGED must_cancel
    /\ UNCHANGED <<shutdown_timeout, current_task, progress_info,
                   task_pc, task_args, task_result, loop_i, indexed_count, es_vars>>

\* Time passes while wait_for waits.  The first step of a task is queued
\* by create_task before wait_for arms its timer, so the loop runs it
\* before any time passes.
Tick ==
    /\ sd_pc = "waiting"
    /\ sd_waited < sd_timeout
    /\ task_pc[sd_fut] # "created"
    /\ sd_waited' = sd_waited + 1
    /\ returned' = NoReturn
    /\ UNCHANGED <<manager_vars, task_vars, es_vars,
                   sd_pc, sd_arg, sd_timeout, sd_fut, sd_cancelled>>

\* wait_for is woken, by the task finishing or by its timer: it returns
\* the result of a finished task, and otherwise cancels the task and
\* waits for it (lines 218-220)
WaitForWoken ==
    /\ sd_pc = "waiting"
    /\ Done(sd_fut) \/ sd_waited >= sd_timeout
    /\ IF Done(sd_fut)
       THEN /\ Return(sd_arg, TRUE, AwaitResult(sd_fut, "raised"), sd_cancelled)
            /\ UNCHANGED must_cancel
       ELSE /\ must_cancel' = [must_cancel EXCEPT ![sd_fut] = TRUE]
            /\ sd_cancelled' = TRUE
            /\ sd_pc' = "cancel_wait"
            /\ returned' = NoReturn
            /\ UNCHANGED <<sd_arg, sd_timeout, sd_fut, sd_waited>>
    /\ UNCHANGED <<manager_vars, task_pc, task_args, task_result,
                   loop_i, indexed_count, es_vars>>

\* The cancelled task has finished: wait_for raises TimeoutError, and
\* lines 222-238 run: whatever task is then recorded as current is
\* cancelled and awaited.
TimedOut ==
    /\ sd_pc = "cancel_wait"
    /\ Done(sd_fut)
    /\ unlocked' = IF task_result[sd_fut] = "cancelled" THEN ShutdownCountersAccess ELSE {}
    /\ IF task_result[sd_fut] # "cancelled"
       THEN Return(sd_arg, TRUE, AwaitResult(sd_fut, TimeoutValue), sd_cancelled) /\ UNCHANGED must_cancel
       ELSE IF current_task = NoTask
       THEN Return(sd_arg, TRUE, TimeoutValue, sd_cancelled) /\ UNCHANGED must_cancel
       ELSE IF Done(current_task)
       THEN /\ Return(sd_arg, TRUE, AwaitCurrent(current_task), sd_cancelled)
            /\ UNCHANGED must_cancel
       ELSE /\ must_cancel' = [must_cancel EXCEPT ![current_task] = TRUE]
            /\ sd_fut' = current_task
            /\ sd_pc' = "await_current"
            /\ returned' = NoReturn
            /\ UNCHANGED <<sd_arg, sd_timeout, sd_waited, sd_cancelled>>
    /\ UNCHANGED <<manager_vars, task_pc, task_args, task_result,
                   loop_i, indexed_count, es_vars>>

\* lines 233-238: `await self._current_task` returns or raises
AwaitCurrentDone ==
    /\ sd_pc = "await_current"
    /\ Done(sd_fut)
    /\ Return(sd_arg, TRUE, AwaitCurrent(sd_fut), sd_cancelled)
    /\ UNCHANGED <<manager_vars, task_vars, es_vars>>

(* ---------------------------- get_status ------------------------------- *)

get_status ==
    /\ returned' = StatusReturned(progress_info)
    /\ UNCHANGED <<manager_vars, task_vars, es_vars, sd_vars>>

(* ---------------------------- StreamingIndexer ------------------------- *)

\* StreamingIndexer(batch_size, max_documents) is constructed beside an
\* idle manager; stream_index_archive has not been called
StreamInit ==
    /\ ManagerInit
    /\ AuxIdle
    /\ RetryIdle
    /\ ParserIdle
    /\ DestIdle
    /\ st_pc = "created"
    /\ st_batch_size \in 1..MaxChunk
    /\ st_max_documents \in {None} \cup (0..MaxEntries)
    /\ html_entries = None
    /\ chunk_start = 0
    /\ batch_num = 0
    /\ batch_docs = 0
    /\ total_indexed = 0
    /\ st_written = <<>>
    /\ st_log = <<>>
    /\ st_result = None
    /\ st_held = {}

\* an entry of st_log: the stage op ran on the chunk numbered chunk, and
\* produced, handed over or counted docs documents
Staged(op, chunk, docs) == [op |-> op, chunk |-> chunk, docs |-> docs]

\* _chunk_list: len(lst[i:i + chunk_size])
ChunkLen(i) == Min(i + st_batch_size, html_entries) - i

\* lines 172-174: `if self.max_documents and total_html_files > self.max_documents`
Limited(n) ==
    IF st_max_documents \notin {None, 0} /\ n > st_max_documents THEN st_max_documents ELSE n

\* `return value` inside the try block, or `return False` of except
\* Exception: the finally clause is next
StreamReturn(value, log, written) ==
    /\ st_result' = value
    /\ st_pc' = "finally"
    /\ st_log' = log
    /\ st_written' = written
    /\ UNCHANGED <<chunk_start, batch_num, batch_docs>>

\* lines 188-203: the for loop asks _chunk_list for the chunk at i; the
\* chunk is extracted (a synchronous call) and its parsing awaited; after
\* the last chunk, lines 236-241, refresh_index is awaited
NextChunk(i, entries, log, written) ==
    /\ chunk_start' = i
    /\ batch_docs' = 0
    /\ st_result' = st_result
    /\ IF i < entries
       THEN /\ batch_num' = batch_num + 1
            /\ st_log' = Append(log, Staged("extract", batch_num + 1, 0))
            /\ st_written' = Append(written, 0)
            /\ st_pc' = "parse"
       ELSE /\ batch_num' = batch_num
            /\ st_log' = log
            /\ st_written' = written
            /\ st_pc' = "refresh"

\* what a step of the pipeline leaves alone
StreamKeeps ==
    UNCHANGED <<manager_vars, task_vars, sd_vars, returned, unlocked, sink_log, bulk_log,
                st_batch_size, st_max_documents, retry_vars, parser_vars, dest_vars,
                aux_vars>>

\* lines 129-136: the call, up to `await es_client.connect()`
stream_index_archive ==
    /\ st_pc = "created"
    /\ st_pc' = "connect"
    /\ UNCHANGED <<html_entries, chunk_start, batch_num, batch_docs, total_indexed,
                   st_written, st_log, st_result, es_exists, st_held>>
    /\ StreamKeeps

\* lines 136-145: connect returns.  ElasticsearchClient.connect keeps the
\* client it constructed in _client whether or not the server answers
\* (elasticsearch.py 45-62); only a failing constructor leaves none
Connected ==
    /\ st_pc = "connect"
    /\ \E connected \in BOOLEAN, constructed \in BOOLEAN :
        /\ connected => constructed
        /\ st_held' = IF constructed THEN st_held \cup {"client"} ELSE st_held
        /\ IF ~connected
           THEN StreamReturn("False", st_log, st_written)
           ELSE /\ st_pc' = "clear"
                /\ UNCHANGED <<chunk_start, batch_num, batch_docs, st_written, st_log, st_result>>
    /\ UNCHANGED <<html_entries, total_indexed, es_exists>>
    /\ StreamKeeps

\* lines 145-150: the old index is deleted and a new one created; an
\* exception of index_exists or indices.delete goes to except Exception
ClearIndex ==
    /\ st_pc = "clear"
    /\ \E raises \in BOOLEAN, created \in BOOLEAN :
        IF raises
        THEN /\ StreamReturn("False", st_log, st_written)
             /\ UNCHANGED es_exists
        ELSE /\ es_exists' = created
             /\ st_pc' = "init"
             /\ UNCHANGED <<chunk_start, batch_num, batch_docs, st_written, st_log, st_result>>
    /\ UNCHANGED <<html_entries, total_indexed, st_held>>
    /\ StreamKeeps

\* what _open_hbk_as_zip leaves in the parser (hbk_parser.py 195-213):
\* nothing when the file cannot be read, the bytes of the file when no
\* ZIP opens, the bytes and the ZipFile object when it returns
OpenHolds(outcome) ==
    CASE outcome = "unreadable" -> {}
      [] outcome = "raises" -> {"archive_data"}
      [] OTHER -> {"archive_data", "zip_file"}

\* lines 157-188: _initialize_extractor raises, or returns no entry, or
\* returns entries of which n are HTML files of the documentation; the
\* limit is applied and the loop entered
InitExtractor ==
    /\ st_pc = "init"
    /\ \E outcome \in {"unreadable", "raises", "empty", "ok"}, n \in 0..MaxEntries :
        /\ st_held' = st_held \cup OpenHolds(outcome)
        /\ IF outcome # "ok"
           THEN /\ n = 0
                /\ StreamReturn("False", st_log, st_written)
                /\ UNCHANGED html_entries
           ELSE /\ html_entries' = Limited(n)
                /\ NextChunk(0, Limited(n), st_log, st_written)
    /\ UNCHANGED <<total_indexed, es_exists>>
    /\ StreamKeeps

\* line 210: `if batch_docs:`
HasDocsAlways(docs) == TRUE
HasDocs(docs) == docs > 0

\* lines 203-218 and 233-234: _parse_files_parallel returns docs documents;
\* they are handed to indexer.index_documentation, or, there being none,
\* the chunk is skipped
ParseChunk ==
    /\ st_pc = "parse"
    /\ \E docs \in 0..ChunkLen(chunk_start) :
        LET log == Append(st_log, Staged("parse", batch_num, docs)) IN
        IF HasDocs(docs)
        THEN /\ batch_docs' = docs
             /\ st_log' = Append(log, Staged("index", batch_num, docs))
             /\ st_pc' = "index"
             /\ UNCHANGED <<chunk_start, batch_num, st_written, st_result>>
        ELSE NextChunk(chunk_start + st_batch_size, html_entries, log, st_written)
    /\ UNCHANGED <<html_entries, total_indexed, es_exists, st_held>>
    /\ StreamKeeps

\* lines 220-222: `if not success: return False`
ChunkFailedGoesOn(i, log, written) == NextChunk(i, html_entries, log, written)
ChunkFailed(i, log, written) == StreamReturn("False", log, written)

\* lines 218-232: index_documentation returns True, every document of
\* the chunk being written, or False, some of them at most being written
IndexChunk ==
    /\ st_pc = "index"
    /\ \E success \in BOOLEAN, n \in 0..batch_docs :
        IF success
        THEN /\ n = batch_docs
             /\ total_indexed' = total_indexed + batch_docs
             /\ es_exists' = TRUE
             /\ NextChunk(chunk_start + st_batch_size, html_entries,
                           Append(st_log, Staged("indexed", batch_num, n)),
                           [st_written EXCEPT ![batch_num] = n])
        ELSE /\ n < batch_docs
             /\ UNCHANGED <<total_indexed, es_exists>>
             /\ ChunkFailed(chunk_start + st_batch_size,
                             Append(st_log, Staged("index_failed", batch_num, n)),
                             [st_written EXCEPT ![batch_num] = n])
    /\ UNCHANGED <<html_entries, st_held>>
    /\ StreamKeeps

\* line 264: `return total_indexed == indexed_docs_count`
StreamVerdict(total, count) == IF total = count THEN "True" ELSE "False"

\* lines 241-264: refresh_index, then get_documents_count reports count
\* (None when the request fails; documents with the same id count once)
Verify ==
    /\ st_pc = "refresh"
    /\ \E count \in {None} \cup (0..total_indexed) :
        StreamReturn(StreamVerdict(total_indexed, count),
                     Append(st_log, Staged("count", batch_num, count)), st_written)
    /\ UNCHANGED <<html_entries, total_indexed, es_exists, st_held>>
    /\ StreamKeeps

\* HBKParser.close(), hbk_parser.py 589-598: the ZipFile is closed, an
\* exception of its close() being passed over, and _zip_file,
\* _archive_data and _archive_path are set to None
close_parser_keeps_data(held) == held \ {"zip_file"}
close_parser(held) == held \ {"archive_data", "zip_file"}

\* ElasticsearchClient.disconnect(), elasticsearch.py 64-72: the client is
\* closed, an exception being logged, and _client set to None
disconnect(held) == held \ {"client"}

\* lines 271-275: parser.close() and es_client.disconnect(); the call returns
StreamFinally ==
    /\ st_pc = "finally"
    /\ st_pc' = "done"
    /\ st_held' = disconnect(close_parser(st_held))
    /\ UNCHANGED <<html_entries, chunk_start, batch_num, batch_docs, total_indexed,
                   st_written, st_log, st_result, es_exists>>
    /\ StreamKeeps

(* ---------------------------- retry decorators ------------------------- *)

\* exception classes a wrapped function raises; elasticsearch's
\* ConnectionError is a subclass of TransportError
ErrorTypes == {"ConnectionError", "TransportError", "ValueError"}
IsInstance(exc, cls) ==
    exc = cls \/ (exc = "ConnectionError" /\ cls = "TransportError")

\* the two preset decorators
Policies == {"connection", "transient"}

\* stop_after_attempt(3) of retry_on_transient_error
TransientAttempts == 3

\* `stop=stop_after_attempt(...)` of the policy
MaxAttempts(policy) ==
    IF policy = "connection" THEN rt_max_retries ELSE TransientAttempts

\* `retry=retry_if_exception_type(...)` of the policy
RetryOnAnyTransportError(policy) == {"ConnectionError", "TransportError"}
RetryOn(policy) ==
    IF policy = "connection" THEN {"ConnectionError"} ELSE {"ConnectionError", "TransportError"}

\* retry_if_exception_type: isinstance(exception, types)
Retryable(policy, exc) == \E cls \in RetryOn(policy) : IsInstance(exc, cls)

\* stop_after_attempt: attempt_number >= max_attempt_number
stop_one_attempt_early(attempt, max_attempt_number) == attempt + 1 >= max_attempt_number
stop_after_attempt(attempt, max_attempt_number) == attempt >= max_attempt_number

\* A wrapped function: its first `fails` calls raise `error`, every later
\* call does `rest` (returns, or raises an error) -- a mock with
\* side_effect=[E, E, value] or side_effect=E.
Funcs ==
    [fails : 0..MaxFails, error : ErrorTypes, rest : {"ok"} \cup ErrorTypes]
Outcome(func, n) == IF n <= func.fails THEN func.error ELSE func.rest

\* how a wrapper call ends: with the value the n-th call returned, or with
\* an exception; an exception of the wrapped function is the instance
\* raised by its n-th call
NotEnded == [kind |-> "none", call |-> 0, type |-> "none"]
Returned(n) == [kind |-> "returned", call |-> n, type |-> "value"]
Raised(exc, n) == [kind |-> "raised", call |-> n, type |-> exc]

\* `reraise=True`: giving up raises the exception of the last attempt
\* instead of tenacity.RetryError
RaiseRetryError(last) == Raised("RetryError", last.call)
Reraise(last) == last

\* a decorator is applied to a function; ArgValues are what callers pass
ArgValues == {"arg1", "arg2"}
RetryInit ==
    /\ ManagerInit
    /\ AuxIdle
    /\ StreamIdle
    /\ ParserIdle
    /\ DestIdle
    /\ rt_pc = "wrapped"
    /\ rt_policy \in Policies
    /\ rt_max_retries \in 1..MaxRetries
    /\ rt_func \in Funcs
    /\ rt_args = None
    /\ attempt_number = 0
    /\ rt_calls = <<>>
    /\ rt_sleeps = 0
    /\ rt_result = NotEnded

\* what a step of the wrapper leaves alone
RetryKeeps ==
    UNCHANGED <<manager_vars, task_vars, es_vars, sd_vars, returned, unlocked, stream_vars,
                rt_policy, rt_max_retries, rt_func, parser_vars, dest_vars,
                aux_vars>>

\* wrapper(*args, **kwargs) is called: the first attempt is due
wrapper(args) ==
    /\ rt_pc = "wrapped"
    /\ rt_pc' = "attempt"
    /\ rt_args' = args
    /\ attempt_number' = 1
    /\ UNCHANGED <<rt_calls, rt_sleeps, rt_result>>
    /\ RetryKeeps

\* One attempt: `await func(*args, **kwargs)`, then tenacity decides: a
\* returned value is returned; an exception the retry predicate rejects
\* is raised as it is; a retryable one is re-raised when the stop
\* condition holds, and otherwise the wrapper sleeps before the next
\* attempt.
Attempt ==
    /\ rt_pc = "attempt"
    /\ LET n == Len(rt_calls) + 1
           outcome == Outcome(rt_func, n)
           end == IF outcome = "ok" THEN Returned(n)
                  ELSE IF ~Retryable(rt_policy, outcome) THEN Raised(outcome, n)
                  ELSE IF stop_after_attempt(attempt_number, MaxAttempts(rt_policy))
                  THEN Reraise(Raised(outcome, n))
                  ELSE NotEnded
       IN /\ rt_calls' = Append(rt_calls, [args |-> rt_args, outcome |-> outcome])
          /\ rt_result' = end
          /\ rt_pc' = IF end = NotEnded THEN "sleep" ELSE "done"
    /\ UNCHANGED <<rt_args, attempt_number, rt_sleeps>>
    /\ RetryKeeps

\* the wait of wait_exponential is over: the next attempt is due
WakeUp ==
    /\ rt_pc = "sleep"
    /\ rt_pc' = "attempt"
    /\ attempt_number' = attempt_number + 1
    /\ rt_sleeps' = rt_sleeps + 1
    /\ UNCHANGED <<rt_args, rt_calls, rt_result>>
    /\ RetryKeeps

(* ---------------------------- HBKParser: the decoder ------------------- *)

\* ZIP_EOCD_MIN_SIZE of hbk_parser.py, max_comment_size of _find_zip_end
ZIP_EOCD_MIN_SIZE == 22
max_comment_size == 65535

Max(a, b) == IF a > b THEN a ELSE b

\* The files the parser is tried on.  The header is absent, or 8 bytes
\* without the bytes 'PK', or 8 bytes holding 'PK' at offset 2, or 22
\* bytes: the end-of-central-directory signature, 16 bytes 0xFF and two
\* zero bytes ("eocd").  The payload
\* is absent, or a valid ZIP, or a ZIP cut inside its central directory.
\* The trailer is absent, or 10 bytes of data, or 70000 bytes of data
\* (both without any signature), or begins with the bytes of the
\* end-of-central-directory signature: followed by 18 zero bytes
\* ("eocd_empty": the record of an archive without members), by 18 bytes
\* 0xFF ("eocd_garbage") or by 10 bytes only ("eocd_cut").
HeaderKinds == {"none", "plain", "pk", "eocd"}
PayloadKinds == {"none", "valid", "truncated"}
TrailerKinds == {"none", "junk", "long", "eocd_empty", "eocd_garbage", "eocd_cut"}
CommentLens == {0, 5}
Containers ==
    {f \in [header : HeaderKinds, payload : PayloadKinds, entries : 0..MaxMembers,
            comment : CommentLens, damaged : 0..MaxMembers, trailer : TrailerKinds] :
        /\ f.payload = "none" => f.entries = 0 /\ f.comment = 0
        /\ f.payload = "truncated" => f.entries >= 1 /\ f.comment = 0
        /\ f.damaged <= f.entries
        /\ f.payload # "valid" => f.damaged = 0}

\* the layout of the bytes of f: a member takes 40 bytes of local header
\* and data and 50 bytes of central directory
HeaderLen(f) ==
    CASE f.header = "none" -> 0
      [] f.header = "eocd" -> 22
      [] OTHER -> 8
EocdPos(f) == HeaderLen(f) + 90 * f.entries
PayloadEnd(f) ==
    CASE f.payload = "valid" -> EocdPos(f) + ZIP_EOCD_MIN_SIZE + f.comment
      [] f.payload = "truncated" -> HeaderLen(f) + 40 * f.entries + 20
      [] OTHER -> HeaderLen(f)
TrailerLen(f) ==
    CASE f.trailer = "none" -> 0
      [] f.trailer = "junk" -> 10
      [] f.trailer = "long" -> 70000
      [] f.trailer = "eocd_cut" -> 14
      [] OTHER -> 22

\* len(data)
DataLen(f) == PayloadEnd(f) + TrailerLen(f)

\* an occurrence of ZIP_EOCD_SIGNATURE in data: its offset, what follows
\* it, and the value of the two bytes at offset + 20
Eocd(pos, kind, comment_len) == [pos |-> pos, kind |-> kind, comment_len |-> comment_len]
NoEocd == Eocd(-1, "none", 0)
Eocds(f) ==
    (IF f.header = "eocd" THEN {Eocd(0, "garbage", 0)} ELSE {})
    \cup
    (IF f.payload = "valid" THEN {Eocd(EocdPos(f), "real", f.comment)} ELSE {})
    \cup
    (CASE f.trailer = "eocd_empty" -> {Eocd(PayloadEnd(f), "empty", 0)}
       [] f.trailer = "eocd_garbage" -> {Eocd(PayloadEnd(f), "garbage", 65535)}
       [] f.trailer = "eocd_cut" -> {Eocd(PayloadEnd(f), "cut", 0)}
       [] OTHER -> {})

\* the offsets of the bytes 'PK' (ZIP_SIGNATURE) that can come first in
\* data: in the header, at the first local file header, at a signature
\* of an end-of-central-directory record
PKPositions(f) ==
    (IF f.header = "pk" THEN {2} ELSE {})
    \cup (IF f.entries >= 1 THEN {HeaderLen(f)} ELSE {})
    \cup {e.pos : e \in Eocds(f)}

\* _find_zip_offset: data.find(ZIP_SIGNATURE)
find_zip_offset(f) ==
    IF PKPositions(f) = {} THEN -1
    ELSE CHOOSE p \in PKPositions(f) : \A q \in PKPositions(f) : p <= q

\* data.rfind(ZIP_EOCD_SIGNATURE, start): the last occurrence at or after start
rfind(f, start) ==
    LET found == {e \in Eocds(f) : e.pos >= start} IN
    IF found = {} THEN NoEocd
    ELSE CHOOSE e \in found : \A x \in found : x.pos <= e.pos

\* `comment_length_pos + 2 <= len(data)` with comment_length_pos = eocd_pos + 20
CommentLenReadable(f, e) == e.pos + 20 + 2 <= DataLen(f)

\* _find_zip_end(data, zip_start)
find_zip_end(f, zip_start) ==
    LET search_start == Max(zip_start, DataLen(f) - ZIP_EOCD_MIN_SIZE - max_comment_size)
        eocd == rfind(f, search_start)
    IN IF eocd = NoEocd THEN DataLen(f)
       ELSE IF CommentLenReadable(f, eocd)
       THEN eocd.pos + ZIP_EOCD_MIN_SIZE + eocd.comment_len
       ELSE eocd.pos + ZIP_EOCD_MIN_SIZE

\* _find_all_eocd(data, start): the offsets of all signatures at or after
\* start, in the order data.find meets them
find_all_eocd_descending(f, start) ==
    LET found == {e \in Eocds(f) : e.pos >= start} IN
    CHOOSE seq \in [1..Cardinality(found) -> found] :
        \A i, j \in 1..Cardinality(found) : i < j => seq[i].pos > seq[j].pos
find_all_eocd(f, start) ==
    LET found == {e \in Eocds(f) : e.pos >= start} IN
    CHOOSE seq \in [1..Cardinality(found) -> found] :
        \A i, j \in 1..Cardinality(found) : i < j => seq[i].pos < seq[j].pos

\* zipfile.ZipFile(io.BytesIO(data[s:e]), 'r').  The standard library
\* looks for the last end-of-central-directory signature within the last
\* 65536 + 22 bytes of what it is given; the record must be complete, and
\* the central directory it describes must be there.  Bytes before the
\* archive are tolerated.  The object lists as many members as the record
\* found declares.
ZipFile(f, s, e) ==
    LET end == Min(e, DataLen(f))
        window == Max(s, end - 65536 - ZIP_EOCD_MIN_SIZE)
        found == {x \in Eocds(f) : x.pos >= window /\ x.pos + 4 <= end}
        last == CHOOSE x \in found : \A y \in found : y.pos <= x.pos
    IN IF end - s < ZIP_EOCD_MIN_SIZE \/ found = {} THEN BadZipFile
       ELSE IF last.pos + ZIP_EOCD_MIN_SIZE > end \/ last.kind \in {"garbage", "cut"}
       THEN BadZipFile
       ELSE IF last.kind = "real"
       THEN [ok |-> TRUE, entries |-> f.entries, damaged |-> f.damaged]
       ELSE [ok |-> TRUE, entries |-> 0, damaged |-> 0]

\* one attempt of _try_open_zip: ZipFile on data[start:end]; pos is the
\* offset of the signature a candidate of the third way is built on
ZipAttempt(strategy, f, start, end, pos) ==
    [strategy |-> strategy, start |-> start, end |-> end, pos |-> pos,
     zip |-> ZipFile(f, start, end)]

\* the attempts _try_open_zip has in store, in the order of the code:
\* lines 234-242, lines 246-250, lines 253-269 (a candidate whose comment
\* length cannot be read is passed over)
Strategies(f, zip_start) ==
    LET eocd_positions == find_all_eocd(f, zip_start)
        readable == SelectSeq(eocd_positions, LAMBDA e : CommentLenReadable(f, e))
    IN <<ZipAttempt("A", f, zip_start, find_zip_end(f, zip_start), None),
         ZipAttempt("B", f, zip_start, DataLen(f), None)>>
       \o [k \in 1..Len(readable) |->
             ZipAttempt("C", f, zip_start,
                      readable[k].pos + ZIP_EOCD_MIN_SIZE + readable[k].comment_len,
                      readable[k].pos)]

\* _try_open_zip(zip_start): each `return zipfile.ZipFile(...)` ends the
\* method at the first attempt that raises no BadZipFile; `return None`
\* after the last one.  Gives the attempts made and the object returned.
try_open_zip(f, zip_start) ==
    LET all == Strategies(f, zip_start)
        opening == {k \in 1..Len(all) : all[k].zip.ok}
        first == IF opening = {} THEN Len(all)
                 ELSE CHOOSE k \in opening : \A j \in opening : k <= j
    IN [attempts |-> SubSeq(all, 1, first),
        zip_file |-> IF opening = {} THEN BadZipFile ELSE all[first].zip]

\* how a call on the parser ended: with a value, or raising exc
HBKParserError == "HBKParserError"
Opened(op, entries) ==
    [op |-> op, outcome |-> "returned", open |-> TRUE, entries |-> entries,
     request |-> {}, files |-> <<>>]
OpenFailed(op, outcome, entries) ==
    [op |-> op, outcome |-> outcome, open |-> FALSE, entries |-> entries,
     request |-> {}, files |-> <<>>]
Extracted(was_open, request, files) ==
    [op |-> "extract_batch_files", outcome |-> "returned", open |-> was_open,
     entries |-> None, request |-> request, files |-> files]

\* _open_hbk_as_zip(file_path), seen by the caller op: the ZIP signature
\* is looked for; without one HBKParserError is raised before any
\* attempt; otherwise _try_open_zip runs, and HBKParserError is raised if
\* it returns None; otherwise the object is kept in _zip_file and one
\* entry per member of infolist() is returned.  handled tells what the
\* caller makes of HBKParserError.
OpenAsZip(op, handled) ==
    \E zip_start \in {find_zip_offset(hp_file)} :
    \E tried \in {try_open_zip(hp_file, zip_start)} :
       IF zip_start < 0
       THEN /\ hp_result' = handled
            /\ open_log' = <<>>
            /\ UNCHANGED zip_file
       ELSE /\ open_log' = tried.attempts
            /\ IF ~tried.zip_file.ok
               THEN hp_result' = handled /\ UNCHANGED zip_file
               ELSE /\ zip_file' = tried.zip_file
                    /\ hp_result' = Opened(op, tried.zip_file.entries)

\* what a step of the parser leaves alone
ParserKeeps ==
    UNCHANGED <<manager_vars, task_vars, es_vars, sd_vars, returned, unlocked, stream_vars,
                retry_vars, dest_vars, hp_file,
                aux_vars>>

\* HBKParser() is constructed, to be used on a file
ParserInit ==
    /\ ManagerInit
    /\ AuxIdle
    /\ StreamIdle
    /\ RetryIdle
    /\ DestIdle
    /\ hp_file \in Containers
    /\ zip_file = BadZipFile
    /\ open_log = <<>>
    /\ hp_result = NoCall

\* _open_hbk_as_zip called directly (StreamingIndexer._initialize_extractor)
open_hbk_as_zip ==
    /\ OpenAsZip("_open_hbk_as_zip", OpenFailed("_open_hbk_as_zip", HBKParserError, None))
    /\ ParserKeeps

\* _extract_archive(file_path), lines 103-112: the entries of
\* _open_hbk_as_zip, and [] when it raises (`except Exception`)
extract_archive ==
    /\ OpenAsZip("_extract_archive", OpenFailed("_extract_archive", "returned", 0))
    /\ ParserKeeps

\* self._zip_file.read(filename): KeyError for a name the archive does not
\* hold, BadZipFile for a member whose data is damaged, else the content
Content(m) == [member |-> m, bytes |-> "content"]
Read(zip, m) ==
    IF m \notin 1..zip.entries THEN "KeyError"
    ELSE IF m = zip.damaged THEN "BadZipFile"
    ELSE "content"

\* lines 493-497: `except KeyError` and `except Exception` around the read
ExceptKeyErrorOnly(exc) == exc = "KeyError"
ExceptReadError(exc) == exc \in {"KeyError", "BadZipFile"}

\* the names callers ask for: the members an archive can hold, and one
\* name no archive holds
Names == 1..(MaxMembers + 1)

\* extract_batch_files(filenames), lines 481-499
extract_batch_files(filenames) ==
    /\ hp_result' =
        IF ~zip_file.ok
        THEN Extracted(FALSE, filenames, <<>>)
        ELSE IF \E m \in filenames :
                    Read(zip_file, m) # "content" /\ ~ExceptReadError(Read(zip_file, m))
        THEN [op |-> "extract_batch_files", outcome |-> "BadZipFile", open |-> TRUE,
              entries |-> None, request |-> filenames, files |-> <<>>]
        ELSE Extracted(TRUE, filenames,
                       [m \in {n \in filenames : Read(zip_file, n) = "content"} |-> Content(m)])
    /\ UNCHANGED <<zip_file, open_log>>
    /\ ParserKeeps

\* close(), lines 589-598
close ==
    /\ zip_file' = BadZipFile
    /\ hp_result' = [NoCall EXCEPT !.op = "close", !.outcome = "returned"]
    /\ UNCHANGED open_log
    /\ ParserKeeps

(* ---------------------------- the destination index -------------------- *)

\* Documentation records: each carries its id
Docs == [id : 1..MaxIds, content : {"doc"}]
Batches == (SUBSET Docs) \ {{}}

\* _index_batch lines 85-90: the action line of a document names the
\* document's own id as "_id"; a destination given no "_id" makes up a
\* new one for every operation
DocKeyAuto(doc, seq) == <<seq, doc.id>>
DocKey(doc, seq) == doc.id

\* what a step on the destination leaves alone
DestKeeps ==
    UNCHANGED <<manager_vars, task_vars, es_vars, sd_vars, returned, unlocked, stream_vars,
                retry_vars, parser_vars,
                aux_vars>>

\* an index is there, empty
DestInit ==
    /\ ManagerInit
    /\ AuxIdle
    /\ StreamIdle
    /\ RetryIdle
    /\ ParserIdle
    /\ dest_keys = {}
    /\ dest_seq = 0
    /\ last_write = NoWrite

\* _index_batch(documents), lines 79-112, with the destination's part: an
\* "index" operation stores the document under its "_id", replacing the
\* document that has it.  Without errors every operation was applied;
\* with errors, or with an exception of the request, some were.
index_batch(documents, outcome, applied) ==
    /\ dest_seq < MaxWrites
    /\ applied \subseteq documents
    /\ IndexBatch(outcome) => applied = documents
    /\ outcome = "errors" => applied # documents
    /\ dest_keys' = dest_keys \cup {DocKey(doc, dest_seq + 1) : doc \in applied}
    /\ dest_seq' = dest_seq + 1
    /\ last_write' = [batch |-> documents, outcome |-> outcome,
                      before |-> Cardinality(dest_keys),
                      earlier |-> IF last_write.outcome = "ok"
                                  THEN last_write.earlier \cup {last_write.batch}
                                  ELSE last_write.earlier]
    /\ DestKeeps

\* reindex_all lines 164-169: the index is deleted and created anew
delete_index ==
    /\ dest_keys # {}
    /\ dest_keys' = {}
    /\ last_write' = NoWrite
    /\ UNCHANGED dest_seq
    /\ DestKeeps

(* ---------------------------- the parallel parse stage ----------------- *)

\* an entry of a chunk: whether extract_batch_files returned its content,
\* and what parsing it does: "docs" (the file yields a record), "empty"
\* (it yields none), "raises" (an exception inside _parse_single_file),
\* "future_raises" (the future of run_in_executor carries an exception)
ParseOutcomes == {"docs", "empty", "raises", "future_raises"}
Entry(extracted, outcome) == [extracted |-> extracted, outcome |-> outcome]
EntrySeqs == UNION {[1..n -> [extracted : BOOLEAN, outcome : ParseOutcomes]] : n \in 0..MaxBatch}

\* the result of a future: a list of records, or an exception
Result(docs) == [state |-> "done", exc |-> FALSE, docs |-> docs]
ExcResult == [state |-> "done", exc |-> TRUE, docs |-> <<>>]
Pending == [state |-> "pending", exc |-> FALSE, docs |-> <<>>]

\* _parse_single_file(entry), lines 55-70, run on entry k of the chunk:
\* _create_document_from_html appends at most one record, the record of
\* file k; `except Exception` returns []
parse_single_file(k) ==
    CASE batch_entries[k].outcome = "docs" -> Result(<<k>>)
      [] batch_entries[k].outcome = "empty" -> Result(<<>>)
      [] batch_entries[k].outcome = "raises" -> Result(<<>>)
      [] OTHER -> ExcResult

\* lines 81-85: `if entry.path in extracted_contents`, in the order of the chunk
RECURSIVE ValidBelow(_, _)
ValidBelow(entries, n) ==
    IF n = 0 THEN <<>>
    ELSE IF entries[n].extracted THEN Append(ValidBelow(entries, n - 1), n)
         ELSE ValidBelow(entries, n - 1)
valid_entries(entries) == ValidBelow(entries, Len(entries))

\* lines 100-104: `isinstance(result, Exception)` is logged, `elif result:`
\* is taken into the batch and counted
CountsEveryResult(result) == ~result.exc
CountsResult(result) == ~result.exc /\ result.docs # <<>>

\* lines 99-104: the loop over the results of gather
RECURSIVE Collected(_, _)
Collected(results, n) ==
    IF n = 0 THEN [batch_docs |-> <<>>, parsed_count |-> 0]
    ELSE LET before == Collected(results, n - 1) IN
         IF results[n].exc THEN before
         ELSE IF CountsResult(results[n])
              THEN [batch_docs |-> before.batch_docs \o results[n].docs,
                    parsed_count |-> before.parsed_count + 1]
              ELSE before

\* what a step of the parse stage leaves alone
ParseKeeps ==
    UNCHANGED <<manager_vars, task_vars, es_vars, sd_vars, returned, unlocked, stream_vars,
                retry_vars, parser_vars, dest_vars, startup_vars, analyze_vars>>

\* a chunk and the contents extracted for it are at hand
ParseInit ==
    /\ ManagerInit
    /\ StreamIdle
    /\ RetryIdle
    /\ ParserIdle
    /\ DestIdle
    /\ StartupIdle
    /\ AnalyzeIdle
    /\ pp_pc = "created"
    /\ batch_entries \in EntrySeqs
    /\ pp_futures = <<>>
    /\ pp_parsed = {}
    /\ pp_return = NoParse

\* lines 72-97: valid_entries is built, one run_in_executor future is made
\* for each of its entries, and gather is awaited
parse_files_parallel ==
    /\ pp_pc = "created"
    /\ pp_pc' = "gather"
    /\ pp_futures' = [i \in 1..Len(valid_entries(batch_entries)) |-> Pending]
    /\ UNCHANGED <<batch_entries, pp_parsed, pp_return>>
    /\ ParseKeeps

\* a worker thread of the pool runs _parse_single_file for the future i;
\* the threads finish in any order
WorkerRuns(i) ==
    /\ pp_pc = "gather"
    /\ pp_futures[i].state = "pending"
    /\ \E k \in {valid_entries(batch_entries)[i]} :
        /\ pp_futures' = [pp_futures EXCEPT ![i] = parse_single_file(k)]
        /\ pp_parsed' = pp_parsed \cup {k}
    /\ UNCHANGED <<pp_pc, batch_entries, pp_return>>
    /\ ParseKeeps

\* lines 97-109: every future is done; gather(return_exceptions=True)
\* gives the results in the order of the futures, and they are collected
gather ==
    /\ pp_pc = "gather"
    /\ \A i \in DOMAIN pp_futures : pp_futures[i].state = "done"
    /\ pp_return' = Collected(pp_futures, Len(pp_futures))
    /\ pp_pc' = "done"
    /\ UNCHANGED <<batch_entries, pp_futures, pp_parsed>>
    /\ ParseKeeps

(* ---------------------------- startup indexing ------------------------- *)

\* the lists of .hbk files auto_index_on_startup can find (startup.py
\* 35-39: the list is not empty); each file gets a task
HbkFileLists == UNION {[1..n -> Files] : n \in 1..MaxTasks}

\* startup.py line 85: `clear_index = (i == 1)`
ClearIndexArg(i) == i = 1

\* startup.py lines 90-91: `while manager.is_indexing(): await asyncio.sleep(1)`
NeverWaits == FALSE
KeepsWaiting == is_indexing

\* an entry of su_started: the call made for hbk_files[i], its
\* clear_index argument, and the task it created (NoTask when the manager
\* dropped the request)
Started(i, clear, task) == [file |-> i, clear_index |-> clear, task |-> task]

\* the other machines are idle beside the startup loop
StartupKeeps ==
    UNCHANGED <<stream_vars, retry_vars, parser_vars, dest_vars, parse_vars, analyze_vars>>

\* auto_index_on_startup has scheduled _delayed_background_indexing on
\* the files it found, beside a new manager (startup.py 59 and 76)
StartupInit ==
    /\ ManagerInit
    /\ StreamIdle
    /\ RetryIdle
    /\ ParserIdle
    /\ DestIdle
    /\ ParseIdle
    /\ AnalyzeIdle
    /\ su_pc = "sleep"
    /\ hbk_files \in HbkFileLists
    /\ su_i = 0
    /\ su_started = <<>>

\* startup.py lines 83-91, one turn of the for loop for the file i:
\* start_indexing is awaited (it has no await of its own), then the
\* loop begins to wait; past the last file the coroutine returns
Turn(i) ==
    IF i > Len(hbk_files)
    THEN /\ su_pc' = "done"
         /\ returned' = NoReturn
         /\ UNCHANGED <<su_i, su_started, manager_vars, task_vars, es_vars, sd_vars>>
    ELSE /\ start_indexing(hbk_files[i], ClearIndexArg(i))
         /\ su_i' = i
         /\ su_pc' = "wait"
         /\ su_started' = Append(su_started,
                Started(i, ClearIndexArg(i), IF is_indexing THEN NoTask ELSE NewTask))

\* startup.py lines 76-87: the sleep of 5 seconds is over
delayed_background_indexing ==
    /\ su_pc = "sleep"
    /\ ~MidStep
    /\ Turn(1)
    /\ unlocked' = {}
    /\ UNCHANGED hbk_files
    /\ StartupKeeps

\* startup.py lines 90-91 and 83-87: a sleep of one second is over and
\* the manager is not indexing: the loop goes to the next file
NextFile ==
    /\ su_pc = "wait"
    /\ ~MidStep
    /\ ~KeepsWaiting
    /\ Turn(su_i + 1)
    /\ unlocked' = {}
    /\ UNCHANGED hbk_files
    /\ StartupKeeps

(* ---------------------------- HBKParser._analyze_structure ------------- *)

\* what an entry of the archive is: a directory, a __categories__ file,
\* an .html file under objects/, an .html file elsewhere, an .st file,
\* any other file
EntryKinds == {"dir", "categories", "html_objects", "html", "st", "other"}
EntryLists == UNION {[1..n -> EntryKinds] : n \in 0..MaxListed}

\* the values of max_files_per_type and max_total_files: None, or a number
Limits == {None} \cup (1..(MaxListed - 1))

\* lines 302-321: html_entries, the .html entries under objects/ in the
\* order of entries
RECURSIVE HtmlBelow(_, _)
HtmlBelow(entries, n) ==
    IF n = 0 THEN <<>>
    ELSE IF entries[n] = "html_objects" THEN Append(HtmlBelow(entries, n - 1), n)
         ELSE HtmlBelow(entries, n - 1)

\* lines 297-326: the counters of the first loop
CountOf(entries, kinds) == Cardinality({k \in DOMAIN entries : entries[k] \in kinds})

\* what a step of the analysis leaves alone
AnalyzeKeeps ==
    UNCHANGED <<manager_vars, task_vars, es_vars, sd_vars, returned, unlocked, stream_vars,
                retry_vars, parser_vars, dest_vars, parse_vars, startup_vars,
                max_files_per_type, max_total_files, an_entries>>

\* HBKParser(max_files_per_type, max_total_files), lines 41-51, and an
\* archive whose entries parse_file has listed
AnalyzeInit ==
    /\ ManagerInit
    /\ StreamIdle
    /\ RetryIdle
    /\ ParserIdle
    /\ DestIdle
    /\ ParseIdle
    /\ StartupIdle
    /\ an_pc = "created"
    /\ max_files_per_type \in Limits
    /\ max_total_files \in Limits
    /\ an_entries \in EntryLists
    /\ an_html = <<>>
    /\ an_i = 0
    /\ processed_html = 0
    /\ an_stats = NoStats

\* _analyze_structure(entries, result), lines 293-332: the first loop
\* sorts the entries out and collects html_entries
analyze_structure ==
    /\ an_pc = "created"
    /\ an_pc' = "batches"
    /\ an_html' = HtmlBelow(an_entries, Len(an_entries))
    /\ UNCHANGED <<an_i, processed_html, an_stats>>
    /\ AnalyzeKeeps

\* lines 334-348: one batch of html_entries is extracted, and every entry
\* of it whose content came back is parsed and counted
AnalyzeBatch ==
    /\ an_pc = "batches"
    /\ an_i < Len(an_html)
    /\ \E extracted_files \in SUBSET {an_html[k] : k \in (an_i + 1)..Min(an_i + BATCH_SIZE, Len(an_html))} :
        processed_html' = processed_html + Cardinality(extracted_files)
    /\ an_i' = an_i + BATCH_SIZE
    /\ UNCHANGED <<an_pc, an_html, an_stats>>
    /\ AnalyzeKeeps

\* lines 350-359: the loop is over and the statistics are stored
AnalyzeStats ==
    /\ an_pc = "batches"
    /\ an_i >= Len(an_html)
    /\ an_pc' = "done"
    /\ an_stats' = [html_files |-> CountOf(an_entries, {"html_objects", "html"}),
                    processed_html |-> processed_html,
                    st_files |-> CountOf(an_entries, {"st"}),
                    category_files |-> CountOf(an_entries, {"categories"}),
                    total_entries |-> Len(an_entries)]
    /\ UNCHANGED <<an_html, an_i, processed_html>>
    /\ AnalyzeKeeps

(* ---------------------------- specification ---------------------------- *)

TimeoutArgs == {None} \cup (0..MaxTimeout)

\* a step of a job task: no public call returns in it
JobStep ==
    /\ \/ \E t \in Tasks : Begin(t) /\ unlocked' = {}
       \/ \E t \in Tasks : CheckFile(t) /\ unlocked' = {}
       \/ \E t \in Tasks : Cancel(t) /\ unlocked' = {}
       \/ \E t \in Tasks : ParseDone(t) /\ unlocked' = {}
       \/ \E t \in Tasks : ClearIndexExists(t) /\ unlocked' = {}
       \/ \E t \in Tasks : ClearDelete(t) /\ unlocked' = {}
       \/ \E t \in Tasks : ClearCreate(t) /\ unlocked' = {}
       \/ \E t \in Tasks : IsConnected(t) /\ unlocked' = {}
       \/ \E t \in Tasks : IndexExists(t) /\ unlocked' = {}
       \/ \E t \in Tasks : CreateIndex(t) /\ unlocked' = {}
       \/ \E t \in Tasks : Bulk(t)
       \/ \E t \in Tasks : Refresh(t)
    /\ returned' = NoReturn
    /\ UNCHANGED <<stream_vars, retry_vars, parser_vars, dest_vars, aux_vars>>

Next ==
    \/ /\ ~MidStep
       /\ \E f \in Files, clear_index \in BOOLEAN : start_indexing(f, clear_index)
       /\ unlocked' = {}
       /\ UNCHANGED <<stream_vars, retry_vars, parser_vars, dest_vars, aux_vars>>
    \/ JobStep
    \/ /\ ~MidStep
       /\ \E timeout \in TimeoutArgs : graceful_shutdown(timeout)
       /\ unlocked' = {}
       /\ UNCHANGED <<stream_vars, retry_vars, parser_vars, dest_vars, aux_vars>>
    \/ ~MidStep /\ Tick /\ unlocked' = {} /\ UNCHANGED <<stream_vars, retry_vars, parser_vars, dest_vars, aux_vars>>
    \/ ~MidStep /\ WaitForWoken /\ unlocked' = {} /\ UNCHANGED <<stream_vars, retry_vars, parser_vars, dest_vars, aux_vars>>
    \/ ~MidStep /\ TimedOut /\ UNCHANGED <<stream_vars, retry_vars, parser_vars, dest_vars, aux_vars>>
    \/ ~MidStep /\ AwaitCurrentDone /\ unlocked' = {} /\ UNCHANGED <<stream_vars, retry_vars, parser_vars, dest_vars, aux_vars>>
    \/ ~MidStep /\ get_status /\ unlocked' = {} /\ UNCHANGED <<stream_vars, retry_vars, parser_vars, dest_vars, aux_vars>>

Spec == Init /\ [][Next]_vars

\* one run of the streaming pipeline
StreamNext ==
    \/ stream_index_archive
    \/ Connected
    \/ ClearIndex
    \/ InitExtractor
    \/ ParseChunk
    \/ IndexChunk
    \/ Verify
    \/ StreamFinally

StreamSpec == StreamInit /\ [][StreamNext]_vars

\* one call of a function wrapped by a retry decorator
RetryNext ==
    \/ \E args \in ArgValues : wrapper(args)
    \/ Attempt
    \/ WakeUp

RetrySpec == RetryInit /\ [][RetryNext]_vars

\* one parser used on one file
ParserNext ==
    \/ open_hbk_as_zip
    \/ extract_archive
    \/ \E filenames \in SUBSET Names : extract_batch_files(filenames)
    \/ close

ParserSpec == ParserInit /\ [][ParserNext]_vars

\* bulk writes to one destination index
DestNext ==
    \/ \E documents \in Batches, outcome \in BulkOutcomes, applied \in SUBSET Docs :
            index_batch(documents, outcome, applied)
    \/ delete_index

DestSpec == DestInit /\ [][DestNext]_vars

\* one chunk in the parallel parse stage
ParseNext ==
    \/ parse_files_parallel
    \/ \E i \in DOMAIN pp_futures : WorkerRuns(i)
    \/ gather

ParseSpec == ParseInit /\ [][ParseNext]_vars

\* the calls and steps that bear on the progress of a job: starts, the
\* steps of the job tasks, shutdowns (get_status only reads the record)
LiveNext ==
    \/ /\ ~MidStep
       /\ \E f \in Files, clear_index \in BOOLEAN : start_indexing(f, clear_index)
       /\ unlocked' = {}
       /\ UNCHANGED <<stream_vars, retry_vars, parser_vars, dest_vars, aux_vars>>
    \/ JobStep
    \/ /\ ~MidStep
       /\ \E timeout \in TimeoutArgs : graceful_shutdown(timeout)
       /\ unlocked' = {}
       /\ UNCHANGED <<stream_vars, retry_vars, parser_vars, dest_vars, aux_vars>>
    \/ ~MidStep /\ Tick /\ unlocked' = {} /\ UNCHANGED <<stream_vars, retry_vars, parser_vars, dest_vars, aux_vars>>
    \/ ~MidStep /\ WaitForWoken /\ unlocked' = {} /\ UNCHANGED <<stream_vars, retry_vars, parser_vars, dest_vars, aux_vars>>
    \/ ~MidStep /\ TimedOut /\ UNCHANGED <<stream_vars, retry_vars, parser_vars, dest_vars, aux_vars>>
    \/ ~MidStep /\ AwaitCurrentDone /\ unlocked' = {} /\ UNCHANGED <<stream_vars, retry_vars, parser_vars, dest_vars, aux_vars>>

\* the manager's job under a fair event loop: a task that can take a
\* step (its await has returned or raised, or a cancellation is pending)
\* is eventually resumed
LiveSpec == Init /\ [][LiveNext]_vars /\ WF_vars(JobStep)

\* the startup loop beside the manager; the application may shut down
\* at any time
StartupNext ==
    \/ delayed_background_indexing
    \/ NextFile
    \/ JobStep
    \/ /\ ~MidStep
       /\ \E timeout \in TimeoutArgs : graceful_shutdown(timeout)
       /\ unlocked' = {}
       /\ UNCHANGED <<stream_vars, retry_vars, parser_vars, dest_vars, aux_vars>>
    \/ ~MidStep /\ Tick /\ unlocked' = {} /\ UNCHANGED <<stream_vars, retry_vars, parser_vars, dest_vars, aux_vars>>
    \/ ~MidStep /\ WaitForWoken /\ unlocked' = {} /\ UNCHANGED <<stream_vars, retry_vars, parser_vars, dest_vars, aux_vars>>
    \/ ~MidStep /\ TimedOut /\ UNCHANGED <<stream_vars, retry_vars, parser_vars, dest_vars, aux_vars>>
    \/ ~MidStep /\ AwaitCurrentDone /\ unlocked' = {} /\ UNCHANGED <<stream_vars, retry_vars, parser_vars, dest_vars, aux_vars>>

StartupSpec == StartupInit /\ [][StartupNext]_vars

\* one parser analysing the entries of one archive
AnalyzeNext ==
    \/ analyze_structure
    \/ AnalyzeBatch
    \/ AnalyzeStats

AnalyzeSpec == AnalyzeInit /\ [][AnalyzeNext]_vars

(* ---------------------------- properties ------------------------------- *)

Terminal(info) == info.status \in {COMPLETED, FAILED}

\* C1: at most one job task is in flight at a time, and a start_indexing
\* call made while is_indexing() is true is dropped: it creates no task and
\* leaves the task handle, the tasks and the status record as they were.
AtMostOneInFlight == Cardinality({t \in Tasks : InFlight(t)}) <= 1
StartWhileIndexingIsDropped ==
    (returned'.op = "start_indexing"
        /\ current_task # NoTask /\ task_pc[current_task] # "done")
    => /\ returned'.value = "dropped"
       /\ UNCHANGED <<current_task, task_pc, task_args, progress_info>>
C1_SingleJobInFlight == []AtMostOneInFlight /\ [][StartWhileIndexingIsDropped]_vars

\* C1 witness: a start request has just been dropped while a job runs
C1_Witness ==
    /\ returned = StartReturned("dropped")
    /\ is_indexing
    /\ progress_info.status = IN_PROGRESS

\* C2: indexed_documents <= total_documents in every state of the status
\* record and in every snapshot get_status returns.
C2_IndexedWithinTotal ==
    /\ progress_info.indexed_documents <= progress_info.total_documents
    /\ returned.op = "get_status"
        => returned.value.indexed_documents <= returned.value.total_documents

\* C2 witness: a snapshot of a run in progress whose first batch failed
\* and whose last, shorter batch was written
C2_Witness ==
    /\ returned.op = "get_status"
    /\ returned.value.status = IN_PROGRESS
    /\ returned.value.indexed_documents > 0
    /\ returned.value.indexed_documents < batch_size
    /\ returned.value.total_documents > batch_size
    /\ \E t \in Tasks : task_pc[t] = "refresh"

\* C3: the status moves only IDLE -> IN_PROGRESS, IN_PROGRESS -> COMPLETED,
\* IN_PROGRESS -> FAILED and COMPLETED/FAILED -> IN_PROGRESS, the moves to
\* IN_PROGRESS being made by a task that begins.
StatusMoves ==
    {<<IDLE, IN_PROGRESS>>, <<IN_PROGRESS, COMPLETED>>, <<IN_PROGRESS, FAILED>>,
     <<COMPLETED, IN_PROGRESS>>, <<FAILED, IN_PROGRESS>>}
StatusMove ==
    progress_info'.status # progress_info.status
    => /\ <<progress_info.status, progress_info'.status>> \in StatusMoves
       /\ progress_info'.status = IN_PROGRESS
            => \E t \in Tasks : task_pc[t] = "created" /\ task_pc'[t] = "check_file"
C3_StatusMoves == [][StatusMove]_vars

\* C3 witness: a second run has ended FAILED after the first run ended
C3_Witness ==
    /\ progress_info.status = FAILED
    /\ progress_info.start_time = 2
    /\ task_result[1] = "returned"
    /\ task_result[2] = "returned"

\* C4: when graceful_shutdown has cancelled the job because it did not
\* finish within the timeout, it returns False and on return is_indexing()
\* is false and the status is FAILED with the cancellation message and
\* end_time set.
C4_TimeoutLeavesFailedCancelled ==
    (returned.op = "graceful_shutdown" /\ returned.cancelled)
    => /\ returned.value = "False"
       /\ ~is_indexing
       /\ progress_info.status = FAILED
       /\ progress_info.error_message = MsgCancelled
       /\ progress_info.end_time # None

\* C5: graceful_shutdown(timeout=0) called while a job is running returns
\* False, having cancelled the job.
C5_ZeroTimeoutReturnsFalse ==
    (returned.op = "graceful_shutdown" /\ returned.running /\ returned.timeout = 0)
    => returned.value = "False" /\ returned.cancelled

\* C6: graceful_shutdown returns True exactly when it cancelled no job:
\* at once and leaving the manager as it was when no job is running, or
\* after the job it waited for finished by itself; it returns False only
\* after it cancelled the job on timeout.
ShutdownReturn ==
    returned'.op = "graceful_shutdown"
    => /\ returned'.value \in {"True", "False"}
       /\ returned'.value = "True" <=> ~returned'.cancelled
       /\ ~returned'.running <=> sd_pc = "idle"
       /\ sd_pc = "idle"
            => /\ ~is_indexing
               /\ returned'.value = "True"
               /\ UNCHANGED <<manager_vars, task_vars, es_vars>>
       /\ (sd_pc # "idle" /\ returned'.value = "True")
            => /\ sd_pc = "waiting"
               /\ task_result[sd_fut] = "returned"
               /\ sd_waited <= sd_timeout
       /\ returned'.value = "False" => task_result[sd_fut] = "cancelled"
C6_ShutdownResult == [][ShutdownReturn]_vars

\* C6 witness: graceful_shutdown has waited for a running job that
\* finished by itself, and returned True
C6_Witness ==
    /\ returned.op = "graceful_shutdown"
    /\ returned.running
    /\ returned.value = "True"
    /\ Terminal(progress_info)

\* the archive of the run the status record belongs to
RunFile == progress_info.file_path

\* C7: when parse_file yields a ParsedHBK with no documentation the job
\* ends COMPLETED with both counters 0 and the run issues no call at all
\* to the destination.
C7_EmptyArchiveCompletes ==
    (RunFile.kind \in {"ok", "no_signature", "bad_zip"}
        /\ parse_file(RunFile).documentation = 0)
    => /\ sink_log = <<>>
       /\ Terminal(progress_info)
            => \/ /\ progress_info.status = COMPLETED
                  /\ progress_info.total_documents = 0
                  /\ progress_info.indexed_documents = 0
               \/ progress_info.error_message = MsgCancelled

\* C7 witness: a run over an archive without documentation has completed
C7_Witness ==
    /\ RunFile = HbkFile("ok", 0)
    /\ progress_info.status = COMPLETED
    /\ current_task = NoTask

\* C8: a job whose archive cannot be decoded ends FAILED with a non-empty
\* error_message, never COMPLETED, and writes nothing to the destination.
C8_UndecodableArchiveFails ==
    (RunFile.kind \in {"no_signature", "bad_zip"} /\ Terminal(progress_info))
    => /\ progress_info.status = FAILED
       /\ progress_info.error_message # ""
       /\ \A k \in 1..Len(sink_log) : sink_log[k] # "bulk"

C10_TerminalStatusComplete ==
    /\ Terminal(progress_info) => progress_info.end_time # None
    /\ progress_info.status = COMPLETED
        => progress_info.indexed_documents = progress_info.total_documents
    /\ progress_info.status = FAILED => progress_info.error_message # ""

\* C10 witness: a run of more than one batch has completed
C10_Witness ==
    /\ progress_info.status = COMPLETED
    /\ progress_info.total_documents > batch_size
    /\ Len(sink_log) > 0

\* ceil(n / b)
CeilDiv(n, b) == (n + b - 1) \div b

\* the positions of sink_log that hold op
Issued(op) == {k \in 1..Len(sink_log) : sink_log[k] = op}

\* the run the status record belongs to was cancelled
RunCancelled == progress_info.error_message = MsgCancelled

FailedWrites == {k \in 1..Len(bulk_log) : bulk_log[k].result \in {"errors", "ConnectionError"}}

\* C12: a run in which one bulk write raised a retryable error and every
\* other destination call succeeded has attempted that batch's write
\* twice, counted its documents and completed.
C12_RetryableBulkIsRetried ==
    (/\ Terminal(progress_info)
     /\ ~RunCancelled
     /\ Issued("refresh") # {}
     /\ Cardinality(FailedWrites) = 1
     /\ \A k \in FailedWrites : bulk_log[k].result = "ConnectionError")
    => /\ progress_info.status = COMPLETED
       /\ progress_info.indexed_documents = RunFile.docs
       /\ \A k \in FailedWrites :
            Cardinality({j \in 1..Len(bulk_log) : bulk_log[j].start = bulk_log[k].start}) = 2

\* C13: once a bulk write of a run has failed no later batch of the run is
\* written, and the job ends FAILED.
C13_FailedBatchAbortsRun ==
    /\ \A k \in FailedWrites : k = Len(bulk_log)
    /\ (FailedWrites # {} /\ Terminal(progress_info)) => progress_info.status = FAILED

\* the step is the first step of a job task: a new run begins
RunBegins == \E t \in Tasks : task_pc[t] = "created" /\ task_pc'[t] = "check_file"

\* C20: within one run neither indexed_documents nor total_documents of
\* the status record ever decreases.
CountersGrow ==
    ~RunBegins
    => /\ progress_info'.indexed_documents >= progress_info.indexed_documents
       /\ progress_info'.total_documents >= progress_info.total_documents
C20_CountersMonotonic == [][CountersGrow]_vars

\* C20 witness: the second progress report of a run has been made
C20_Witness ==
    /\ progress_info.status = IN_PROGRESS
    /\ Len(bulk_log) = 2
    /\ bulk_log[1].result = "ok"
    /\ bulk_log[2].result = "ok"
    /\ progress_info.indexed_documents = progress_info.total_documents

\* the positions of st_log that hold stage op
Stage(op) == {k \in 1..Len(st_log) : st_log[k].op = op}

\* the documents of the chunks whose indexing succeeded, up to position k of st_log
RECURSIVE Produced(_)
Produced(k) ==
    IF k = 0 THEN 0
    ELSE Produced(k - 1) + (IF st_log[k].op = "indexed" THEN st_log[k].docs ELSE 0)

\* C14: when indexing of chunk k fails stream_index_archive returns False
\* at once: the failure is the last stage the run performs, so no later
\* chunk is extracted, parsed or written, and the documents of the chunks
\* indexed before stay in the destination.
C14_FailedChunkStopsRun ==
    \A k \in Stage("index_failed") :
        /\ k = Len(st_log)
        /\ st_log[k].chunk = batch_num
        /\ st_pc \in {"finally", "done"}
        /\ st_result = "False"
        /\ \A j \in Stage("indexed") :
            st_log[j].chunk < batch_num /\ st_written[st_log[j].chunk] = st_log[j].docs

\* C14 witness: the run has returned after its second chunk failed, with
\* the first chunk indexed and a third chunk never touched
C14_Witness ==
    /\ st_pc = "done"
    /\ Stage("index_failed") # {}
    /\ batch_num = 2
    /\ st_written[1] > 0
    /\ chunk_start + st_batch_size < html_entries

\* C15: a chunk whose parse stage yields no record is not handed to the
\* destination and does not fail the run: the next stage, if any, is the
\* extraction of the next chunk or the final count, and the produced
\* count is the sum over the chunks that were indexed.
C15_EmptyChunkSkipped ==
    /\ \A k \in Stage("parse") :
        st_log[k].docs = 0
        => /\ st_written[st_log[k].chunk] = 0
           /\ \A j \in Stage("index") : st_log[j].chunk # st_log[k].chunk
           /\ k < Len(st_log)
                => \/ st_log[k+1] = Staged("extract", st_log[k].chunk + 1, 0)
                   \/ st_log[k+1].op = "count"
           /\ k = Len(st_log) => st_pc = "refresh" /\ st_result = None
    /\ \A k \in Stage("index") : st_log[k].docs > 0
    /\ total_indexed = Produced(Len(st_log))

\* C15 witness: a run whose first chunk yielded nothing and whose second
\* chunk was indexed has returned True
C15_Witness ==
    /\ st_pc = "done"
    /\ st_result = "True"
    /\ Staged("parse", 1, 0) \in {st_log[k] : k \in 1..Len(st_log)}
    /\ \E k \in Stage("indexed") : st_log[k].chunk = 2
    /\ total_indexed > 0

\* C16: a run in which every chunk was indexed successfully and the final
\* count was taken returns True, whatever count the destination reported.
C16_MismatchIsOnlyWarning ==
    (st_pc = "done" /\ Stage("count") # {}) => st_result = "True"

\* the wrapped function was called n times, each time with the wrapper's arguments
CalledTimes(n) ==
    /\ Len(rt_calls) = n
    /\ \A k \in 1..n : rt_calls[k].args = rt_args

\* C17: a wrapped function that raises a retryable error on its first k
\* calls and then succeeds, k being smaller than the policy's maximum
\* attempt count, is called exactly k+1 times with the same arguments and
\* the wrapper returns the value of the last call.
C17_SucceedsAfterRetries ==
    (/\ rt_pc = "done"
     /\ rt_func.rest = "ok"
     /\ rt_func.fails = 0 \/ Retryable(rt_policy, rt_func.error)
     /\ rt_func.fails < MaxAttempts(rt_policy))
    => /\ CalledTimes(rt_func.fails + 1)
       /\ rt_result = Returned(rt_func.fails + 1)
       /\ rt_sleeps = rt_func.fails

\* C17 witness: the connection policy with 3 attempts, two failures, then
\* success: 3 calls
C17_Witness ==
    /\ rt_pc = "done"
    /\ rt_policy = "connection"
    /\ rt_func = [fails |-> 2, error |-> "ConnectionError", rest |-> "ok"]
    /\ Len(rt_calls) = 3
    /\ rt_result.kind = "returned"

\* C18: a wrapped function whose first error is not retryable under the
\* policy is called exactly once and that error propagates without a
\* wait; the connection policy does not retry a TransportError that is
\* not a ConnectionError.
C18_NonRetryablePropagates ==
    /\ ~Retryable("connection", "TransportError")
    /\ (/\ rt_pc = "done"
        /\ Outcome(rt_func, 1) # "ok"
        /\ ~Retryable(rt_policy, Outcome(rt_func, 1)))
       => /\ CalledTimes(1)
          /\ rt_result = Raised(Outcome(rt_func, 1), 1)
          /\ rt_sleeps = 0

\* C18 witness: under the connection policy a TransportError has propagated
C18_Witness ==
    /\ rt_pc = "done"
    /\ rt_policy = "connection"
    /\ rt_max_retries > 1
    /\ rt_result = Raised("TransportError", 1)

\* the wrapped function raises a retryable error on every call
AlwaysFails ==
    /\ rt_func.rest # "ok"
    /\ Retryable(rt_policy, rt_func.rest)
    /\ rt_func.fails = 0 \/ Retryable(rt_policy, rt_func.error)

\* C19: the wrapper never calls the function more often than the policy's
\* maximum attempt count (3 for the transient policy, max_retries for the
\* connection policy); a function that raises a retryable error on every
\* call is called exactly that often and the error of the last call is
\* raised.
C19_GivesUpAfterMaxAttempts ==
    /\ rt_pc # "none" => Len(rt_calls) <= MaxAttempts(rt_policy)
    /\ MaxAttempts("transient") = 3
    /\ (rt_pc = "done" /\ AlwaysFails)
       => /\ CalledTimes(MaxAttempts(rt_policy))
          /\ rt_result = Raised(rt_calls[Len(rt_calls)].outcome, Len(rt_calls))

\* C19 witness: the transient policy has given up after a ConnectionError
\* and two TransportErrors
C19_Witness ==
    /\ rt_pc = "done"
    /\ rt_policy = "transient"
    /\ rt_func = [fails |-> 1, error |-> "ConnectionError", rest |-> "TransportError"]
    /\ Len(rt_calls) = 3
    /\ rt_result = Raised("TransportError", 3)

\* C26: get_status returns a copy of the status record taken under the
\* lock: the snapshot equals the record as it is when the call returns
\* (no field from an earlier or later update: a terminal status comes with
\* its end_time, the two counters belong together), and a step made after
\* the call returned leaves the snapshot as it was returned.
SnapshotAfterStep == IF returned.copy THEN returned.value ELSE progress_info'
SnapshotConsistent ==
    returned.op = "get_status" =>
        /\ returned.value = progress_info
        /\ Terminal(returned.value) => returned.value.end_time # None
        /\ returned.value.indexed_documents <= returned.value.total_documents
SnapshotKept == returned.op = "get_status" => SnapshotAfterStep = returned.value
C27_EveryAccessUnderLock == unlocked = {}

\* the step is made by a public call: start_indexing, get_status or
\* graceful_shutdown (at its call or at one of its resumptions)
PublicCallStep == returned'.op # "none" \/ sd_vars' # sd_vars

\* the step is made by the job task t: it moves to another await, or to
\* the bulk write of the next batch
JobTaskStep(t) ==
    /\ InFlight(t)
    /\ task_pc'[t] # task_pc[t] \/ loop_i'[t] # loop_i[t]
    /\ ~PublicCallStep

\* the step ends the job task t by the cancellation delivered to it
CancelledStep(t) ==
    /\ task_pc[t] \notin {"none", "created", "done"}
    /\ task_pc'[t] = "done"
    /\ task_result'[t] = "cancelled"

\* C28: the status record changes only in steps of the job task; the
\* public calls leave it as it is; the FAILED status of a cancelled run is
\* written in the step of the cancelled job task itself.
SoleWriter ==
    /\ PublicCallStep => progress_info' = progress_info
    /\ progress_info' # progress_info => \E t \in Tasks : JobTaskStep(t)
    /\ \A t \in Tasks : CancelledStep(t) =>
        /\ JobTaskStep(t)
        /\ progress_info'.status = FAILED
        /\ progress_info'.error_message = MsgCancelled
C28_JobTaskIsSoleWriter == [][SoleWriter]_vars

\* graceful_shutdown has returned after cancelling the job, and the
\* status is the FAILED the job wrote
C28_Witness ==
    /\ returned.op = "graceful_shutdown"
    /\ returned.cancelled
    /\ progress_info.status = FAILED
    /\ RunCancelled

\* the job task t has begun its run and not finished it
Running(t) == task_pc[t] \notin {"none", "created", "done"}

\* the first destination call named op of the run, 0 if there is none
First(op) == IF Issued(op) = {} THEN 0 ELSE CHOOSE k \in Issued(op) : \A j \in Issued(op) : k <= j

\* C29: a run with clear_index=False issues no deletion of the index and
\* the index never ceases to exist in its steps; a run with
\* clear_index=True asks whether the index exists, deletes it if it does
\* and creates the new one, all before its first bulk write.
ClearOrder ==
    \A t \in Tasks : Running(t) =>
        IF ~task_args[t].clear_index
        THEN Issued("delete") = {}
        ELSE /\ Issued("delete") \subseteq {2}
             /\ Issued("bulk") # {} =>
                  /\ sink_log[1] = "exists"
                  /\ First("create") \in {2, 3}
                  /\ First("create") < First("bulk")
                  /\ \A k \in Issued("delete") : k < First("create")
IndexDeletedOnlyByClear ==
    (es_exists /\ ~es_exists') =>
        \E t \in Tasks : task_pc[t] = "clear_delete" /\ task_args[t].clear_index
ExistingIndexDeleted ==
    \A t \in Tasks :
        (task_pc[t] = "clear_exists" /\ task_pc'[t] = "clear_create") => ~es_exists
C29_ClearOnlyOnRequest ==
    []ClearOrder /\ [][IndexDeletedOnlyByClear /\ ExistingIndexDeleted]_vars

\* a clearing run that deleted the index is at a bulk write
C29_Witness ==
    \E t \in Tasks :
        /\ task_args[t].clear_index
        /\ task_pc[t] = "bulk"
        /\ Issued("delete") # {}
        /\ Len(bulk_log) = 2

\* the last call on the parser was an opening of the container
OpenCalled == hp_result.op \in {"_open_hbk_as_zip", "_extract_archive"}

\* C21: extract_batch_files on an open archive returns, for exactly the
\* requested names that the archive holds and can read, their content;
\* the other names are left out and the call does not raise.
C21_BatchExtractExact ==
    (hp_result.op = "extract_batch_files" /\ hp_result.open) =>
        /\ hp_result.outcome = "returned"
        /\ DOMAIN hp_result.files =
             {m \in hp_result.request : m \in 1..zip_file.entries /\ m # zip_file.damaged}
        /\ \A m \in DOMAIN hp_result.files : hp_result.files[m] = Content(m)

\* a member that is there, one that cannot be read and a name that is
\* missing were asked for
C21_Witness ==
    /\ hp_result.op = "extract_batch_files"
    /\ hp_result.open
    /\ zip_file.entries = 2
    /\ zip_file.damaged = 1
    /\ hp_result.request = {1, 2, 3}
    /\ DOMAIN hp_result.files = {2}

\* C22: extract_batch_files called with no archive open does not return
\* a result: it raises an extraction error.
C22_NotOpenIsAnError ==
    (hp_result.op = "extract_batch_files" /\ ~hp_result.open) => hp_result.outcome # "returned"

\* the candidates of the third way: the signatures at or after the ZIP
\* signature whose comment length can be read
Candidates ==
    {e \in Eocds(hp_file) : e.pos >= find_zip_offset(hp_file) /\ CommentLenReadable(hp_file, e)}

\* the attempts of the third way in open_log
ThirdWay == {k \in 1..Len(open_log) : open_log[k].strategy = "C"}

\* C23: the attempts are made in the order A, B, C; the candidates of C
\* are the signatures at or after the ZIP signature in ascending offset,
\* each ending the range by its own comment length; an attempt is made
\* only after all earlier ones failed; the first ZIP opened is the one
\* kept; no ZIP is returned only when every attempt was made and failed.
C23_StrategiesInOrder ==
    open_log # <<>> =>
        LET zip_start == find_zip_offset(hp_file) IN
        /\ \A k \in 1..Len(open_log) : open_log[k].start = zip_start
        /\ open_log[1].strategy = "A"
        /\ open_log[1].end = find_zip_end(hp_file, zip_start)
        /\ Len(open_log) >= 2 => open_log[2].strategy = "B" /\ open_log[2].end = DataLen(hp_file)
        /\ ThirdWay = 3..Len(open_log)
        /\ \A k \in ThirdWay :
             /\ \E e \in Candidates :
                  /\ e.pos = open_log[k].pos
                  /\ open_log[k].end = e.pos + ZIP_EOCD_MIN_SIZE + e.comment_len
             /\ \A e \in Candidates :
                  e.pos < open_log[k].pos => \E j \in ThirdWay : j < k /\ open_log[j].pos = e.pos
             /\ \A j \in ThirdWay : j < k => open_log[j].pos < open_log[k].pos
        /\ \A k \in 1..(Len(open_log) - 1) : ~open_log[k].zip.ok
        /\ OpenCalled =>
             IF open_log[Len(open_log)].zip.ok
             THEN zip_file = open_log[Len(open_log)].zip /\ hp_result.open
             ELSE /\ ~hp_result.open
                  /\ Len(open_log) >= 2
                  /\ {open_log[k].pos : k \in ThirdWay} = {e.pos : e \in Candidates}

\* the ZIP was opened by the second candidate of the third way, after A,
\* B and the first candidate failed
C23_Witness ==
    /\ hp_result.op = "_open_hbk_as_zip"
    /\ Len(open_log) = 4
    /\ open_log[4].zip.ok
    /\ open_log[3].pos < open_log[4].pos

\* C24: for a container with a valid ZIP payload, whatever its header
\* and its trailer, the first attempt (A) opens the payload, and the
\* entries returned are as many as the central directory declares.
C24_StrategyAOpensValidPayload ==
    (OpenCalled /\ hp_file.payload = "valid") =>
        /\ Len(open_log) = 1
        /\ open_log[1].strategy = "A"
        /\ open_log[1].zip.ok
        /\ hp_result.entries = hp_file.entries

\* C25: when the file holds no ZIP signature no attempt is made, and
\* then, as when every attempt failed, the opening ends with the decode
\* error and gives no entry list.
C25_UndecodableRaises ==
    OpenCalled =>
        /\ find_zip_offset(hp_file) < 0 => open_log = <<>>
        /\ (find_zip_offset(hp_file) < 0 \/ \A k \in 1..Len(open_log) : ~open_log[k].zip.ok) =>
             /\ hp_result.outcome = HBKParserError
             /\ hp_result.entries = None

\* C30: a batch written with success that had been written with success
\* before, the index not having been cleared since, leaves the number of
\* documents of the destination as it was; a batch written alone to an
\* empty index gives one document per id.
C30_RewriteKeepsCount ==
    last_write.outcome = "ok" =>
        /\ last_write.batch \in last_write.earlier => Cardinality(dest_keys) = last_write.before
        /\ last_write.before = 0 =>
             Cardinality(dest_keys) = Cardinality({doc.id : doc \in last_write.batch})

\* a batch of two records was written a second time
C30_Witness ==
    /\ last_write.outcome = "ok"
    /\ last_write.batch \in last_write.earlier
    /\ Cardinality(last_write.batch) = 2
    /\ Cardinality(dest_keys) = 2

\* the entries of the chunk that parse into a record, in the order of the chunk
RECURSIVE ParsedWell(_)
ParsedWell(n) ==
    IF n = 0 THEN <<>>
    ELSE IF batch_entries[n].extracted /\ batch_entries[n].outcome = "docs"
         THEN Append(ParsedWell(n - 1), n)
         ELSE ParsedWell(n - 1)

\* C31: in the parallel parse stage a failing entry (exception, or no
\* record) neither aborts the chunk nor touches the other entries: the
\* stage returns exactly the records of the entries that parsed well, in
\* the order of the chunk; parsed_count is the number of those entries;
\* and _parse_single_file ran on the extracted entries only.
C31_FailedEntryIsLeftOut ==
    /\ pp_parsed \subseteq {k \in DOMAIN batch_entries : batch_entries[k].extracted}
    /\ pp_pc = "done" =>
        /\ pp_return.batch_docs = ParsedWell(Len(batch_entries))
        /\ pp_return.parsed_count = Len(ParsedWell(Len(batch_entries)))
        /\ pp_parsed = {k \in DOMAIN batch_entries : batch_entries[k].extracted}

\* a chunk of three returned: its first entry raised, its second gave no
\* record, its third gave one
C31_Witness ==
    /\ pp_pc = "done"
    /\ Len(batch_entries) = 3
    /\ batch_entries[1] = Entry(TRUE, "raises")
    /\ batch_entries[2] = Entry(TRUE, "empty")
    /\ batch_entries[3] = Entry(TRUE, "docs")
    /\ pp_return = [batch_docs |-> <<3>>, parsed_count |-> 1]

\* the offsets of the local file header signature (the four bytes
\* 'PK\x03\x04') in data: one at the start of every member
LocalFileHeaders(f) == {HeaderLen(f) + 40 * (m - 1) : m \in 1..f.entries}

\* C32: every attempt to open the ZIP starts at the first occurrence of
\* the four-byte local file header signature in the file, whatever the
\* vendor header before it holds.
C32_StartIsFirstLocalHeader ==
    \A k \in 1..Len(open_log) :
        /\ open_log[k].start \in LocalFileHeaders(hp_file)
        /\ \A p \in LocalFileHeaders(hp_file) : open_log[k].start <= p

\* the documents of the bulk writes of the run that succeeded
RECURSIVE OkDocs(_, _)
OkDocs(log, n) ==
    IF n = 0 THEN 0
    ELSE OkDocs(log, n - 1) + (IF log[n].result = "ok" THEN log[n].len ELSE 0)

\* the bulk call the task t was suspended at returns in this step; the
\* write it ended
BulkReturns(t) == task_pc[t] = "bulk" /\ task_pc'[t] \in {"bulk", "refresh"}
EndedWrite == bulk_log'[Len(bulk_log)]

\* index_documentation returns to the job in this step
IndexDocumentationReturns(t) ==
    task_pc[t] = "refresh" /\ task_pc'[t] = "done" /\ task_result'[t] = "returned"

\* in the batch loop the count reported is that of the documents written
ReportedIsWritten ==
    \A t \in Tasks : task_pc[t] \in {"bulk", "refresh"} =>
        /\ indexed_count[t] = OkDocs(bulk_log, Len(bulk_log))
        /\ progress_info.indexed_documents = OkDocs(bulk_log, Len(bulk_log))
        /\ progress_info.total_documents = TotalDocs(t)

\* the callback runs after a successful write and no other, with the
\* cumulative count and the total; the run succeeds when no write failed,
\* and then the last report was (total, total)
ReportAfterSuccessOnly ==
    \A t \in Tasks :
        /\ BulkReturns(t) =>
            IF EndedWrite.result = "ok"
            THEN progress_info' =
                    [progress_info EXCEPT
                        !.indexed_documents = OkDocs(bulk_log', Len(bulk_log)),
                        !.total_documents = TotalDocs(t)]
            ELSE progress_info' = progress_info
        /\ IndexDocumentationReturns(t) =>
            /\ progress_info'.status = COMPLETED
                    <=> \A k \in 1..Len(bulk_log) : bulk_log[k].result = "ok"
            /\ progress_info'.status = COMPLETED =>
                    /\ progress_info.indexed_documents = TotalDocs(t)
                    /\ progress_info.total_documents = TotalDocs(t)

\* C33: the progress callback is called only after a batch was written
\* with success, with the cumulative count of the documents of the
\* batches written with success and the total of the run; a failed batch
\* leaves the reported count as it was; index_documentation returns True
\* exactly when every batch succeeded, and then the last report was
\* (total, total).
C33_ProgressCountsWrittenBatches == []ReportedIsWritten /\ [][ReportAfterSuccessOnly]_vars

\* three documents: the first batch of two failed, the second of one
\* was written, and (1, 3) was reported
C33_Witness ==
    /\ \E t \in Tasks : task_pc[t] = "refresh"
    /\ Len(bulk_log) = 2
    /\ bulk_log[1].result = "errors"
    /\ bulk_log[2].result = "ok"
    /\ progress_info.indexed_documents = 1
    /\ progress_info.total_documents = 3

\* C34: whenever the status is IN_PROGRESS a job task is in flight
\* (is_indexing() is true), whatever starts, completions, failures,
\* cancellations and shutdowns came before.
C34_InProgressHasTask == progress_info.status = IN_PROGRESS => is_indexing

\* a second job is in progress after a first one ended
C34_Witness ==
    /\ progress_info.status = IN_PROGRESS
    /\ is_indexing
    /\ current_task = 2
    /\ task_pc[1] = "done"

\* the job task t has begun running: its first step has started
Began(t) == task_pc[t] \notin {"none", "created", "done"}

\* the job task t is over with a terminal status, and no job is in flight
Ended(t) ==
    /\ task_pc[t] = "done"
    /\ progress_info.status \in {COMPLETED, FAILED}
    /\ ~is_indexing

\* the job task t ended by cancellation, with the status FAILED
EndedCancelled(t) ==
    /\ task_pc[t] = "done"
    /\ task_result[t] = "cancelled"
    /\ progress_info.status = FAILED
    /\ progress_info.error_message = MsgCancelled

\* C35: with a fair event loop, and the decode and every destination
\* call returning or raising, every job task that has begun running
\* ends with the status COMPLETED or FAILED and is_indexing() false; a
\* task cancelled after it began running ends FAILED.
C35_JobTerminates ==
    \A t \in Tasks :
        /\ Began(t) ~> Ended(t)
        /\ (Began(t) /\ must_cancel[t]) ~> EndedCancelled(t)

\* a task that had begun was cancelled, and ended FAILED
C35_Witness ==
    /\ EndedCancelled(1)
    /\ sink_log # <<>>

\* a status record in progress is that of the run of task t and of
\* nothing before it: no error message and no end time, the file and
\* the start time of t, and counters that come from t's own run
FreshRecord(info, t) ==
    /\ info.error_message = ""
    /\ info.end_time = None
    /\ info.file_path = task_args[t].file_path
    /\ info.start_time = Now(t)
    /\ info.total_documents \in {0, TotalDocs(t)}
    /\ info.indexed_documents = OkDocs(bulk_log, Len(bulk_log))

\* C36: a job that begins replaces the status record as a whole: a
\* status IN_PROGRESS, in the record or in a snapshot get_status
\* returned, never comes with the error_message, end_time or document
\* counters of an earlier run, and its file_path and start_time are
\* those of the run in flight.
C36_NewRunReplacesRecord ==
    /\ progress_info.status = IN_PROGRESS =>
            current_task # NoTask /\ FreshRecord(progress_info, current_task)
    /\ (returned.op = "get_status" /\ returned.value.status = IN_PROGRESS) =>
            current_task # NoTask /\ FreshRecord(returned.value, current_task)

\* get_status returned a snapshot of a second run in progress, the first
\* run having ended FAILED or COMPLETED
C36_Witness ==
    /\ returned.op = "get_status"
    /\ returned.value.status = IN_PROGRESS
    /\ current_task = 2
    /\ task_result[1] = "returned"

\* C37: when stream_index_archive has returned, by whatever path
\* (success, no connection, no entry, a failed chunk, an exception), the
\* parser holds neither the ZIP handle nor the bytes of the file and the
\* Elasticsearch client is disconnected.
C37_ReleasedOnEveryExit ==
    /\ st_pc = "done" => st_held = {}
    /\ st_pc = "finally" => st_result \in {"True", "False"}

\* a run that had connected and opened the archive has returned after a
\* failed chunk, holding nothing
C37_Witness ==
    /\ st_pc = "done"
    /\ st_result = "False"
    /\ Stage("index_failed") # {}
    /\ html_entries = 1
    /\ st_held = {}

\* the loop has just called start_indexing for the file i
StartedNow(i) == Len(su_started') = i /\ Len(su_started) = i - 1

\* the calls made so far are for the files 1, 2, ... in list order, each
\* created a task of its own, only the first asked to clear the index,
\* and every job but the last started is over
OneJobPerFileInOrder ==
    /\ \A k \in 1..Len(su_started) :
        /\ su_started[k].file = k
        /\ su_started[k].task # NoTask
        /\ \A j \in 1..Len(su_started) : j # k => su_started[j].task # su_started[k].task
        /\ su_started[k].clear_index <=> k = 1
        /\ k < Len(su_started) => Done(su_started[k].task)
    /\ su_pc = "done" => Len(su_started) = Len(hbk_files)
    /\ Len(su_started) <= Len(hbk_files)

\* a job is started for its own file, with no earlier job running, and
\* only a job asked to clear deletes the index
StartedAfterPrevious ==
    \A i \in 1..Len(hbk_files) :
        StartedNow(i) =>
            /\ ~is_indexing
            /\ \A k \in 1..(i - 1) : Done(su_started[k].task)
            /\ task_pc'[su_started'[i].task] = "created"
            /\ task_args'[su_started'[i].task] =
                    [file_path |-> hbk_files[i], clear_index |-> (i = 1)]

\* C38: the startup loop works through the files found one after
\* another in list order: the job of a file is started only when the job
\* of the file before it is no longer running, every file of the list
\* gets a job of its own, and only the job of the first file clears the
\* index.
C38_StartupFilesOneByOne == []OneJobPerFileInOrder /\ [][StartedAfterPrevious]_vars

\* two files: the job of the second one is running, without clearing,
\* after the job of the first one completed
C38_Witness ==
    /\ Len(su_started) = 2
    /\ task_result[su_started[1].task] = "returned"
    /\ progress_info.status = IN_PROGRESS
    /\ InFlight(su_started[2].task)
    /\ ~task_args[su_started[2].task].clear_index
    /\ sink_log # <<>>

\* C39: a parser constructed with max_total_files = N parses at most N
\* HTML files in one parse_file call, and with max_files_per_type = M at
\* most M files of a type; None sets no limit.
C39_LimitsAreApplied ==
    /\ max_total_files # None => processed_html <= max_total_files
    /\ max_files_per_type # None => processed_html <= max_files_per_type

====
